---- MODULE Spec2Model ----
(***************************************************************************)
(* A model of fortis: the transcript widget state                          *)
(* (src/src/widgets/transcriptions.rs), the speaker map of AppState        *)
(* (src/src/state.rs) and the orchestrator of src/src/main.rs with its     *)
(* capture worker (src/src/audio.rs) and transcription session             *)
(* (src/src/transcribers/deepgram.rs).                                     *)
(*                                                                         *)
(* Conventions.  Option<T> is a sequence of length at most one: <<>> is    *)
(* None and <<x>> is Some(x).  A String is the sequence of its chars; its  *)
(* byte length is the sum of the UTF-8 widths of the chars, and a cursor   *)
(* is a byte offset as in the source.  Indices are 0-based as in the       *)
(* source; the i-th element of a VecDeque v is v[i + 1].                   *)
(***************************************************************************)
EXTENDS Integers, Sequences, FiniteSets, TLC

(* ------------------------------------------------------------------ *)
(* Bounds of the model                                                  *)
(* ------------------------------------------------------------------ *)

\* Capacity of the transcript buffer.  The source sets 2_000
\* (transcriptions.rs:68); the model checks the same code with a small
\* capacity so that eviction happens within the explored runs.
MAX_TRANSCRIPTIONS == 4

\* Transcript events appended in one run.
MaxAppends == 6

\* Largest viewport height a render passes in.
MaxViewport == 3

\* Transcript events appended in one run of SpecEdit.
MaxEditAppends == 2

\* Editing keystrokes (insert, backspace, cursor left/right) in one run.
MaxKeys == 2

\* Device-change and configuration-change requests in one run.
MaxRestarts == 2

\* Transcript events a run of SpecLoop holds, queued or appended.
MaxLoopEvents == 1

\* Transcript events a run of SpecSelect holds, queued or appended.
MaxSelectEvents == 2

\* Configuration-change requests in a run of SpecLoop.
MaxLoopRestarts == 1

\* Configuration-change requests in a run of SpecShutdown.
MaxShutdownRestarts == 1

\* Words in a provider response.
MaxWords == 3

\* Transcript events in a run of SpecRename.
MaxRenameAppends == 5

\* Transcript events and restart requests in a run of SpecSession.
MaxSessionEvents == 1

MaxSessionRestarts == 1

\* Pauses, resumes and chunks in a run of SpecPause.
MaxAudioLog == 4

\* Calls on a configuration field in a run of SpecConfig, and the
\* options of a select field.
MaxConfigCalls == 4

MaxOptions == 3

\* Transcript lines of the AppModel in a run of SpecModel.
MaxModelLines == 2

\* Audio chunks queued for a session, and provider responses ready for it.
MaxQueued == 2

\* Calls of stop and restart on an AudioCaptureWorker in a run of SpecWorker.
MaxWorkerCalls == 3

\* Choices of a device in the device dialog in a run of SpecDevice.
MaxDeviceChanges == 1

\* Restart requests in a run of SpecTick.
MaxTickRestarts == 1

\* Transcript events and restart requests in a run of SpecDeliver.
MaxDeliverEvents == 2

MaxDeliverRestarts == 1

\* The clock of a run of SpecRecording, in ticks.
MaxClock == 4

\* Input devices an enumeration finds.
MaxDevices == 2

(* ------------------------------------------------------------------ *)
(* Option and integer helpers                                           *)
(* ------------------------------------------------------------------ *)

None == <<>>

Some(x) == <<x>>

\* usize::saturating_sub
saturating_sub(a, b) == IF a > b THEN a - b ELSE 0

min(a, b) == IF a < b THEN a ELSE b

max(a, b) == IF a > b THEN a ELSE b

\* The sequences of at most n elements of S.
RECURSIVE SeqsUpTo(_, _)
SeqsUpTo(S, n) ==
    IF n = 0
    THEN {<<>>}
    ELSE LET shorter == SeqsUpTo(S, n - 1)
         IN  shorter \cup {Append(q, x) : q \in shorter, x \in S}

(* ------------------------------------------------------------------ *)
(* Strings: sequences of chars with their UTF-8 widths                  *)
(* ------------------------------------------------------------------ *)

\* The chars the model types and receives: "x" and the other ASCII
\* letters (one byte in UTF-8), "U+00E9", e-acute (two bytes), " ", the
\* space, and four chars of three bytes: "U+4E2D" (a CJK unified
\* ideograph), "U+3400" (CJK extension A), "U+3042" (hiragana) and
\* "U+30AB" (katakana).
\* char::len_utf8 for these chars.
len_utf8(c) ==
    IF c = "U+00E9" THEN 2
    ELSE IF c \in {"U+4E2D", "U+3400", "U+3042", "U+30AB"} THEN 3
    ELSE 1

\* char::is_whitespace for these chars.
is_whitespace(c) == c = " "

\* str::len: the length in bytes.
RECURSIVE byte_len(_)
byte_len(str) ==
    IF str = <<>> THEN 0 ELSE len_utf8(Head(str)) + byte_len(Tail(str))

\* Byte offset of the end of the first k chars.
PrefixBytes(str, k) == byte_len(SubSeq(str, 1, k))

\* str::is_char_boundary
is_char_boundary(str, idx) ==
    \E k \in 0..Len(str) : PrefixBytes(str, k) = idx

\* Number of chars before the boundary idx.
CharsBefore(str, idx) ==
    CHOOSE k \in 0..Len(str) : PrefixBytes(str, k) = idx

\* String::insert(idx, c); it panics unless idx is a char boundary.
string_insert(str, idx, c) ==
    LET k == CharsBefore(str, idx)
    IN  SubSeq(str, 1, k) \o <<c>> \o SubSeq(str, k + 1, Len(str))

string_insert_panics(str, idx) == ~is_char_boundary(str, idx)

\* String::remove(idx); it panics unless idx is a char boundary before
\* the end of the string.
string_remove(str, idx) ==
    LET k == CharsBefore(str, idx)
    IN  SubSeq(str, 1, k) \o SubSeq(str, k + 2, Len(str))

string_remove_panics(str, idx) ==
    idx >= byte_len(str) \/ ~is_char_boundary(str, idx)

\* &str[..cursor] and &str[cursor..]; they panic unless cursor is a
\* char boundary.
str_slice_panics(str, idx) == ~is_char_boundary(str, idx)

\* str::trim
RECURSIVE trim_start(_)
trim_start(str) ==
    IF str # <<>> /\ is_whitespace(Head(str)) THEN trim_start(Tail(str)) ELSE str

RECURSIVE trim_end(_)
trim_end(str) ==
    IF str # <<>> /\ is_whitespace(str[Len(str)])
    THEN trim_end(SubSeq(str, 1, Len(str) - 1))
    ELSE str

trim(str) == trim_end(trim_start(str))

\* The decimal digit of a small speaker id.
DigitChar(d) ==
    CASE d = 0 -> "0" [] d = 1 -> "1" [] d = 2 -> "2" [] d = 3 -> "3"
      [] d = 4 -> "4" [] d = 5 -> "5" [] d = 6 -> "6" [] d = 7 -> "7"
      [] d = 8 -> "8" [] OTHER -> "9"

\* format!("Speaker {}", speaker_id) for a one-digit id.
DefaultSpeakerName(speaker_id) ==
    <<"S", "p", "e", "a", "k", "e", "r", " ", DigitChar(speaker_id)>>

(* ------------------------------------------------------------------ *)
(* Inputs                                                               *)
(* ------------------------------------------------------------------ *)

\* speaker_id of a transcript event in the runs of Spec: a row without
\* and a row with a speaker label.
EventSpeakers == {None, Some(0)}

\* Texts of transcript events in the runs of Spec.
EventTexts == {<<"x">>}

\* speaker_id and texts of transcript events in the runs of SpecEdit.
EditEventSpeakers == {None, Some(0)}

EditEventTexts == {<<"x">>, <<"U+00E9">>}

\* Chars typed while editing.
TypedChars == {"x", "U+00E9"}

\* Heights a render passes to update_viewport_height.
ViewportHeights == 0..MaxViewport

(* ------------------------------------------------------------------ *)
(* State                                                                *)
(* ------------------------------------------------------------------ *)

VARIABLES
    transcriptions,   \* TranscriptionWidgetState.transcriptions
    scroll_position,  \* TranscriptionWidgetState.scroll_position
    focus,            \* TranscriptionWidgetState.focus
    viewport_height,  \* TranscriptionWidgetState.viewport_height
    edit_mode,        \* TranscriptionWidgetState.edit_mode
    speaker_map,      \* AppState.speaker_map
    panicked,         \* the process has panicked
    appended,         \* history: number of add_transcription calls
    keys_used,        \* history: editing keystrokes so far
    edit_target,      \* history: arrival number of the message start_editing took
    main_pc,          \* where main is (main.rs:135-250)
    audio_device_restart_needed,  \* AppState flag taken at main.rs:185
    transcriber_restart_needed,   \* AppState flag taken at main.rs:194
    should_quit,      \* AppState.should_quit
    workers,          \* the capture worker threads spawned so far
    audio_worker,     \* main's AudioCaptureWorker: the thread it holds, and its handle
    tasks,            \* the transcription tasks spawned so far
    transcription_task, \* main's JoinHandle: the task it refers to
    audio_tx,         \* main's audio sender: the channel it sends on (0: dropped)
    result_rx,        \* main's event receiver: the channel it receives from
    restarts,         \* history: restart requests so far
    restart_log,      \* history: steps of the transcriber restart being processed
    last_io,          \* history: the task whose provider I/O was the last step (0: none)
    result_queue,     \* the events queued on the channel result_rx receives from
    needs_redraw,     \* main's needs_redraw
    wake,             \* history: the last wake of main's select and what followed it
    fr_response,      \* a provider response handed to format_response
    fr_results,       \* what format_response returned for it
    enumerated,       \* what list_audio_devices returned to AppState::new
    current_device_index, \* AppState.current_device_index
    is_paused,        \* AppState.is_paused
    audio_log,        \* history: the pauses, resumes and chunks sent, in order
    callbacks,        \* the capture callbacks past their check: about to send, or closed
    config,           \* ConfigManager: a field of the schema, its stored value, the file
    config_log,       \* history: the calls made on the field
    model,            \* AppModel
    model_event,      \* history: the last event handed to update_model
    session_count,    \* history: configuration changes processed, sessions not created
    run_loop,         \* the run loop of one session (deepgram.rs:165-212)
    device,           \* the device selection: the config entry, the cached name, the dialog
    app,              \* App: the dialogs open, the edit mode, and the last key as history
    recording         \* AppState.recording_session, the pause flag and the clock

wvars == <<transcriptions, scroll_position, focus, viewport_height, edit_mode>>

hvars == <<appended, keys_used, edit_target>>

\* The user interface: the widget, the speaker map and their history.
uivars == <<wvars, speaker_map, panicked, hvars>>

\* The orchestrator, its threads and tasks.
ovars ==
    <<main_pc, audio_device_restart_needed, transcriber_restart_needed, should_quit,
      workers, audio_worker, tasks, transcription_task, audio_tx, result_rx,
      restarts, restart_log, last_io>>

\* The event channel in use, the dirty flag and the history of the wake.
evars == <<result_queue, needs_redraw, wake>>

\* format_response applied to a response.
fvars == <<fr_response, fr_results>>

\* The start of the program.
svars == <<enumerated, current_device_index>>

\* The pause flag and the capture callbacks.
pvars == <<is_paused, audio_log, callbacks>>

\* The configuration manager.
cvars == <<config, config_log>>

\* The AppModel of event_handler.rs.
mvars == <<model, model_event>>

nvars == <<session_count>>

lvars == <<run_loop>>

\* What the steps that count sessions leave alone.
dvars == <<device>>

avars == <<app>>

rvars == <<recording>>

zvars == <<lvars, dvars, avars, rvars>>

yvars == <<nvars, zvars>>

xvars == <<svars, pvars, cvars, mvars, yvars>>

vars == <<uivars, ovars, evars, fvars, xvars>>

(* ------------------------------------------------------------------ *)
(* TranscriptionWidgetState (widgets/transcriptions.rs)                 *)
(*                                                                      *)
(* The methods are operators from the widget state s, a record of the   *)
(* five fields, to the widget state after the call.                     *)
(* ------------------------------------------------------------------ *)

\* TranscriptionMessage::new, with the arrival number as a history field.
TranscriptionMessage(speaker, speaker_id, content, uid) ==
    [speaker |-> speaker, speaker_id |-> speaker_id, content |-> content, uid |-> uid]

\* FocusLocation
FocusLocation(message_index, segment) ==
    [message_index |-> message_index, segment |-> segment]

\* EditMode::None
EditNone == [kind |-> "None", message_index |-> 0, buffer |-> <<>>, cursor |-> 0]

\* EditMode::EditingSpeaker and EditMode::EditingMessage
Editing(kind, message_index, buffer, cursor) ==
    [kind |-> kind, message_index |-> message_index, buffer |-> buffer, cursor |-> cursor]

\* The widget state as one record.
W ==
    [transcriptions |-> transcriptions, scroll_position |-> scroll_position,
     focus |-> focus, viewport_height |-> viewport_height, edit_mode |-> edit_mode]

\* TranscriptionWidgetState::new
widget_new ==
    [transcriptions |-> <<>>, scroll_position |-> 0, focus |-> None,
     viewport_height |-> 0, edit_mode |-> EditNone]

\* VecDeque::get(index).is_some()
InRange(s, index) == index < Len(s.transcriptions)

\* VecDeque::pop_front
pop_front(q) == IF q = <<>> THEN q ELSE Tail(q)

message_has_speaker(s, index) ==
    InRange(s, index) /\ s.transcriptions[index + 1].speaker # None

resolve_segment_for_message_always_preferred(s, index, preferred) == preferred

resolve_segment_for_message(s, index, preferred) ==
    IF preferred = "Speaker" /\ message_has_speaker(s, index)
    THEN "Speaker"
    ELSE "Message"

ensure_focus_valid_no_default(s) ==
    IF s.transcriptions = <<>> \/ s.focus = None
    THEN [s EXCEPT !.focus = None, !.scroll_position = 0]
    ELSE s

ensure_focus_valid(s) ==
    IF s.transcriptions = <<>>
    THEN [s EXCEPT !.focus = None, !.scroll_position = 0]
    ELSE LET len == Len(s.transcriptions)
             f0 == IF s.focus = None
                   THEN FocusLocation(len - 1, "Message")
                   ELSE s.focus[1]
             idx == IF f0.message_index >= len THEN len - 1 ELSE f0.message_index
             seg == resolve_segment_for_message(s, idx, f0.segment)
         IN  [s EXCEPT !.focus = Some(FocusLocation(idx, seg))]

\* visible_lines of clamp_scroll: the whole history while no viewport
\* height is known.
visible_lines_of(s) ==
    LET total == Len(s.transcriptions)
    IN  IF s.viewport_height = 0 THEN total ELSE min(total, s.viewport_height)

clamp_scroll(s) ==
    LET total == Len(s.transcriptions)
        max_scroll == saturating_sub(total, visible_lines_of(s))
    IN  IF total = 0
        THEN [s EXCEPT !.scroll_position = 0]
        ELSE IF s.scroll_position > max_scroll
             THEN [s EXCEPT !.scroll_position = max_scroll]
             ELSE s

\* A correction that brings a focused row outside the window to the last
\* visible row, whichever side it is on.
scroll_to_focus_last_row(s) ==
    LET focus_ == s.focus[1]
        total == Len(s.transcriptions)
        visible_lines == min(total, s.viewport_height)
        max_scroll == saturating_sub(total, visible_lines)
        offset_from_bottom == min(s.scroll_position, max_scroll)
        end_index == saturating_sub(total, offset_from_bottom)
        start_index == saturating_sub(end_index, visible_lines)
    IN  IF focus_.message_index < start_index \/ focus_.message_index >= end_index
        THEN [s EXCEPT !.scroll_position =
                 min(saturating_sub(total, focus_.message_index + 1), max_scroll)]
        ELSE s

\* The part of ensure_focus_visible after the early returns.
scroll_to_focus(s) ==
    LET focus_ == s.focus[1]
        total == Len(s.transcriptions)
        visible_lines == min(total, s.viewport_height)
        max_scroll == saturating_sub(total, visible_lines)
        offset_from_bottom == min(s.scroll_position, max_scroll)
        end_index == saturating_sub(total, offset_from_bottom)
        start_index == saturating_sub(end_index, visible_lines)
    IN  IF focus_.message_index < start_index
        THEN [s EXCEPT !.scroll_position =
                 min(saturating_sub(total, focus_.message_index + visible_lines), max_scroll)]
        ELSE IF focus_.message_index >= end_index
             THEN [s EXCEPT !.scroll_position =
                      min(saturating_sub(total, focus_.message_index + 1), max_scroll)]
             ELSE s

ensure_focus_visible_clamp_only(s) ==
    IF s.viewport_height = 0
    THEN s
    ELSE clamp_scroll(ensure_focus_valid(s))

ensure_focus_visible(s) ==
    IF s.viewport_height = 0
    THEN s
    ELSE LET s1 == clamp_scroll(ensure_focus_valid(s))
         IN  IF s1.focus = None
             THEN s1
             ELSE IF Len(s1.transcriptions) = 0
                  THEN [s1 EXCEPT !.scroll_position = 0]
                  ELSE scroll_to_focus(s1)

handle_removed_front_no_shift(s) ==
    IF s.focus = None
    THEN s
    ELSE IF s.transcriptions = <<>>
         THEN [s EXCEPT !.focus = None, !.scroll_position = 0]
         ELSE LET f0 == s.focus[1]
                  len == Len(s.transcriptions)
                  idx2 == IF f0.message_index >= len THEN len - 1 ELSE f0.message_index
                  seg == resolve_segment_for_message(s, idx2, f0.segment)
              IN  [s EXCEPT !.focus = Some(FocusLocation(idx2, seg))]

\* Called after pop_front: s.transcriptions is already without its front.
handle_removed_front(s) ==
    IF s.focus = None
    THEN s
    ELSE LET f0 == s.focus[1]
             idx1 == IF f0.message_index > 0 THEN f0.message_index - 1 ELSE f0.message_index
         IN  IF s.transcriptions = <<>>
             THEN [s EXCEPT !.focus = None, !.scroll_position = 0]
             ELSE LET len == Len(s.transcriptions)
                      idx2 == IF idx1 >= len THEN len - 1 ELSE idx1
                      seg == resolve_segment_for_message(s, idx2, f0.segment)
                  IN  [s EXCEPT !.focus = Some(FocusLocation(idx2, seg))]

add_transcription_off_by_one(s, message) ==
    LET s1 == IF Len(s.transcriptions) > MAX_TRANSCRIPTIONS
              THEN clamp_scroll(handle_removed_front(
                       [s EXCEPT !.transcriptions = pop_front(@)]))
              ELSE s
        s2 == [s1 EXCEPT !.transcriptions = Append(@, message)]
    IN  ensure_focus_visible(ensure_focus_valid(s2))

add_transcription(s, message) ==
    LET s1 == IF Len(s.transcriptions) >= MAX_TRANSCRIPTIONS
              THEN clamp_scroll(handle_removed_front(
                       [s EXCEPT !.transcriptions = pop_front(@)]))
              ELSE s
        s2 == [s1 EXCEPT !.transcriptions = Append(@, message)]
    IN  ensure_focus_visible(ensure_focus_valid(s2))

focus_left(s) ==
    LET s1 == ensure_focus_valid(s)
        s2 == IF s1.focus # None
                 /\ s1.focus[1].segment = "Message"
                 /\ message_has_speaker(s1, s1.focus[1].message_index)
              THEN [s1 EXCEPT !.focus = Some(FocusLocation(s1.focus[1].message_index, "Speaker"))]
              ELSE s1
    IN  ensure_focus_visible(s2)

\* A focus_right that toggles the segment as focus_left does.
focus_right_toggles(s) ==
    IF s.focus # None /\ s.focus[1].segment = "Message" THEN focus_left(s) ELSE s

focus_right(s) ==
    LET s1 == ensure_focus_valid(s)
        s2 == IF s1.focus # None /\ s1.focus[1].segment = "Speaker"
              THEN [s1 EXCEPT !.focus = Some(FocusLocation(s1.focus[1].message_index, "Message"))]
              ELSE s1
    IN  ensure_focus_visible(s2)

update_viewport_height(s, height) ==
    ensure_focus_visible(clamp_scroll([s EXCEPT !.viewport_height = max(height, 1)]))

focus_prev_row(s) ==
    IF s.transcriptions = <<>>
    THEN s
    ELSE LET s1 == ensure_focus_valid(s)
             current == s1.focus[1]
             new_index == IF current.message_index = 0 THEN 0 ELSE current.message_index - 1
             s2 == IF s1.focus = None
                   THEN s1
                   ELSE [s1 EXCEPT !.focus = Some(FocusLocation(new_index,
                            resolve_segment_for_message(s1, new_index, current.segment)))]
         IN  ensure_focus_visible(s2)

\* A focus_next_row that goes to the newest row at once.
focus_next_row_to_last(s) ==
    IF s.transcriptions = <<>>
    THEN s
    ELSE LET s1 == ensure_focus_valid(s)
             last_index == Len(s1.transcriptions) - 1
         IN  ensure_focus_visible([s1 EXCEPT !.focus = Some(FocusLocation(last_index,
                 resolve_segment_for_message(s1, last_index, s1.focus[1].segment)))])

focus_next_row(s) ==
    IF s.transcriptions = <<>>
    THEN s
    ELSE LET s1 == ensure_focus_valid(s)
             current == s1.focus[1]
             last_index == Len(s1.transcriptions) - 1
             new_index == IF current.message_index >= last_index
                          THEN last_index
                          ELSE current.message_index + 1
             s2 == IF s1.focus = None
                   THEN s1
                   ELSE [s1 EXCEPT !.focus = Some(FocusLocation(new_index,
                            resolve_segment_for_message(s1, new_index, current.segment)))]
         IN  ensure_focus_visible(s2)

scroll_up(s) == focus_prev_row(s)

scroll_down(s) == focus_next_row(s)

is_editing(s) == s.edit_mode.kind # "None"

\* A cancel_editing that writes the buffer of a message edit back.
cancel_editing_writes_back(s) ==
    IF s.edit_mode.kind = "EditingMessage" /\ InRange(s, s.edit_mode.message_index)
    THEN [s EXCEPT !.transcriptions[s.edit_mode.message_index + 1].content =
                       s.edit_mode.buffer,
                   !.edit_mode = EditNone]
    ELSE [s EXCEPT !.edit_mode = EditNone]

cancel_editing(s) == [s EXCEPT !.edit_mode = EditNone]

\* A start_editing that opens a session over the one that is active.
start_editing_anew(s) ==
    LET s1 == ensure_focus_valid(s)
    IN  IF s1.focus = None \/ ~InRange(s1, s1.focus[1].message_index)
        THEN s1
        ELSE LET focus_ == s1.focus[1]
                 message == s1.transcriptions[focus_.message_index + 1]
                 text == IF focus_.segment = "Speaker" /\ message.speaker # None
                         THEN message.speaker[1]
                         ELSE message.content
             IN  [s1 EXCEPT !.edit_mode =
                     Editing(IF focus_.segment = "Speaker" /\ message.speaker # None
                             THEN "EditingSpeaker" ELSE "EditingMessage",
                             focus_.message_index, text, byte_len(text))]

start_editing(s) ==
    IF is_editing(s)
    THEN s
    ELSE LET s1 == ensure_focus_valid(s)
         IN  IF s1.focus = None \/ ~InRange(s1, s1.focus[1].message_index)
             THEN s1
             ELSE LET focus_ == s1.focus[1]
                      message == s1.transcriptions[focus_.message_index + 1]
                  IN  IF focus_.segment = "Speaker"
                      THEN IF message.speaker # None
                           THEN [s1 EXCEPT !.edit_mode =
                                    Editing("EditingSpeaker", focus_.message_index,
                                            message.speaker[1], byte_len(message.speaker[1]))]
                           ELSE s1
                      ELSE [s1 EXCEPT !.edit_mode =
                               Editing("EditingMessage", focus_.message_index,
                                       message.content, byte_len(message.content))]



(* ------------------------------------------------------------------ *)
(* AppState speaker map (state.rs)                                      *)
(* ------------------------------------------------------------------ *)

\* HashMap::new
EmptyMap == [k \in {} |-> <<>>]

\* A lookup that takes no notice of the names set so far.
get_speaker_name_default_only(map, speaker_id) == DefaultSpeakerName(speaker_id)

\* AppState::get_speaker_name
get_speaker_name(map, speaker_id) ==
    IF speaker_id \in DOMAIN map THEN map[speaker_id] ELSE DefaultSpeakerName(speaker_id)

\* AppState::set_speaker_name
set_speaker_name(map, speaker_id, name) ==
    [k \in DOMAIN map \cup {speaker_id} |-> IF k = speaker_id THEN name ELSE map[k]]

(* ------------------------------------------------------------------ *)
(* Editing (widgets/transcriptions.rs)                                  *)
(* ------------------------------------------------------------------ *)

\* apply_edit(&mut self, app_state): the widget state and the speaker map
\* after the call, as [w |-> ..., map |-> ...].
apply_edit(s, map) ==
    LET e == s.edit_mode
        done == [s EXCEPT !.edit_mode = EditNone]
        trimmed == trim(e.buffer)
    IN  CASE e.kind = "EditingSpeaker" ->
               IF InRange(s, e.message_index) /\ trimmed # <<>>
               THEN LET message == s.transcriptions[e.message_index + 1]
                    IN  IF message.speaker_id # None
                        THEN [w |-> [done EXCEPT !.transcriptions =
                                        [i \in DOMAIN @ |->
                                            IF @[i].speaker_id = message.speaker_id
                                            THEN [@[i] EXCEPT !.speaker = Some(trimmed)]
                                            ELSE @[i]]],
                              map |-> set_speaker_name(map, message.speaker_id[1], trimmed)]
                        ELSE [w |-> [done EXCEPT
                                        !.transcriptions[e.message_index + 1].speaker =
                                            Some(trimmed)],
                              map |-> map]
               ELSE [w |-> done, map |-> map]
          [] e.kind = "EditingMessage" ->
               IF InRange(s, e.message_index)
               THEN [w |-> [done EXCEPT
                               !.transcriptions[e.message_index + 1].content = e.buffer],
                     map |-> map]
               ELSE [w |-> done, map |-> map]
          [] OTHER -> [w |-> done, map |-> map]

\* handle_char_input panics when String::insert does.
handle_char_input_panics(s) ==
    is_editing(s) /\ string_insert_panics(s.edit_mode.buffer, s.edit_mode.cursor)

handle_char_input(s, c) ==
    IF is_editing(s)
    THEN [s EXCEPT !.edit_mode.buffer = string_insert(@, s.edit_mode.cursor, c),
                   !.edit_mode.cursor = @ + 1]
    ELSE s

\* handle_backspace panics when String::remove does.
handle_backspace_panics(s) ==
    /\ is_editing(s)
    /\ s.edit_mode.cursor > 0
    /\ string_remove_panics(s.edit_mode.buffer, s.edit_mode.cursor - 1)

handle_backspace(s) ==
    IF is_editing(s) /\ s.edit_mode.cursor > 0
    THEN [s EXCEPT !.edit_mode.buffer = string_remove(@, s.edit_mode.cursor - 1),
                   !.edit_mode.cursor = @ - 1]
    ELSE s

move_cursor_left(s) ==
    IF is_editing(s) /\ s.edit_mode.cursor > 0
    THEN [s EXCEPT !.edit_mode.cursor = @ - 1]
    ELSE s

move_cursor_right(s) ==
    IF is_editing(s) /\ s.edit_mode.cursor < byte_len(s.edit_mode.buffer)
    THEN [s EXCEPT !.edit_mode.cursor = @ + 1]
    ELSE s

\* The rows TranscriptionWidget::render draws: start_index..end_index.
rendered_rows(s) ==
    LET total == Len(s.transcriptions)
        visible_lines == min(total, s.viewport_height)
        max_scroll == saturating_sub(total, visible_lines)
        offset_from_bottom == min(s.scroll_position, max_scroll)
        end_index == saturating_sub(total, offset_from_bottom)
        start_index == saturating_sub(end_index, visible_lines)
    IN  {idx \in 0..(total - 1) : start_index <= idx /\ idx < end_index}

\* TranscriptionWidget::render slices the edit buffer at the cursor when
\* it draws the row under edit (for a speaker edit, when the row has a
\* speaker label); the slice panics off a char boundary.
render_panics(s) ==
    /\ is_editing(s)
    /\ s.edit_mode.message_index \in rendered_rows(s)
    /\ \/ s.edit_mode.kind = "EditingMessage"
       \/ message_has_speaker(s, s.edit_mode.message_index)
    /\ str_slice_panics(s.edit_mode.buffer, s.edit_mode.cursor)

(* ------------------------------------------------------------------ *)
(* The transcript widget driven by its callers: the transcript branch   *)
(* of main (main.rs:157-164), the key handler (tui.rs:101-219) and      *)
(* render (transcriptions.rs:490-626).  A panic ends the process.       *)
(* ------------------------------------------------------------------ *)

SetW(s) ==
    /\ transcriptions' = s.transcriptions
    /\ scroll_position' = s.scroll_position
    /\ focus' = s.focus
    /\ viewport_height' = s.viewport_height
    /\ edit_mode' = s.edit_mode

\* A message labelled with the default name of its speaker id, whatever
\* the map holds.
message_for_default_name(map, speaker_id, transcript, uid) ==
    TranscriptionMessage(
        IF speaker_id = None THEN None ELSE Some(DefaultSpeakerName(speaker_id[1])),
        speaker_id, transcript, uid)

\* The message main builds for a transcript event (main.rs:161-162).
message_for(map, speaker_id, transcript, uid) ==
    TranscriptionMessage(
        IF speaker_id = None THEN None ELSE Some(get_speaker_name(map, speaker_id[1])),
        speaker_id, transcript, uid)

UiInit ==
    /\ transcriptions = widget_new.transcriptions
    /\ scroll_position = widget_new.scroll_position
    /\ focus = widget_new.focus
    /\ viewport_height = widget_new.viewport_height
    /\ edit_mode = widget_new.edit_mode
    /\ speaker_map = EmptyMap
    /\ panicked = FALSE
    /\ appended = 0
    /\ keys_used = 0
    /\ edit_target = 0

\* A transcript event other than the sentinel arrives (main.rs:160-164).
AddTranscription(speakers, texts, limit) ==
    /\ ~panicked
    /\ appended < limit
    /\ \E speaker_id \in speakers, transcript \in texts :
          SetW(add_transcription(W,
                   message_for(speaker_map, speaker_id, transcript, appended + 1)))
    /\ appended' = appended + 1
    /\ UNCHANGED <<speaker_map, panicked, keys_used, edit_target>>
    /\ UNCHANGED <<ovars, evars, fvars, xvars>>

\* KeyCode::Up outside edit mode (tui.rs:201-204).
ScrollUp ==
    /\ ~panicked /\ ~is_editing(W)
    /\ SetW(scroll_up(W))
    /\ UNCHANGED <<speaker_map, panicked, hvars>>
    /\ UNCHANGED <<ovars, evars, fvars, xvars>>

\* KeyCode::Down outside edit mode (tui.rs:205-208).
ScrollDown ==
    /\ ~panicked /\ ~is_editing(W)
    /\ SetW(scroll_down(W))
    /\ UNCHANGED <<speaker_map, panicked, hvars>>
    /\ UNCHANGED <<ovars, evars, fvars, xvars>>

\* KeyCode::Left outside edit mode (tui.rs:209-212).
FocusLeft ==
    /\ ~panicked /\ ~is_editing(W)
    /\ SetW(focus_left(W))
    /\ UNCHANGED <<speaker_map, panicked, hvars>>
    /\ UNCHANGED <<ovars, evars, fvars, xvars>>

\* KeyCode::Right outside edit mode (tui.rs:213-216).
FocusRight ==
    /\ ~panicked /\ ~is_editing(W)
    /\ SetW(focus_right(W))
    /\ UNCHANGED <<speaker_map, panicked, hvars>>
    /\ UNCHANGED <<ovars, evars, fvars, xvars>>

\* TranscriptionWidget::render: update_viewport_height, then the rows.
Render ==
    /\ ~panicked
    /\ \E height \in ViewportHeights :
          LET s == update_viewport_height(W, height)
          IN  /\ SetW(s)
              /\ panicked' = render_panics(s)
    /\ UNCHANGED <<speaker_map, hvars>>
    /\ UNCHANGED <<ovars, evars, fvars, xvars>>

\* KeyCode::Enter outside edit mode (tui.rs:197-200).
StartEditing ==
    /\ ~panicked /\ ~is_editing(W)
    /\ LET s == start_editing(W)
       IN  /\ SetW(s)
           /\ edit_target' = IF is_editing(s)
                             THEN s.transcriptions[s.edit_mode.message_index + 1].uid
                             ELSE 0
    /\ UNCHANGED <<speaker_map, panicked, appended, keys_used>>
    /\ UNCHANGED <<ovars, evars, fvars, xvars>>

\* KeyCode::Esc in edit mode (tui.rs:150-153).
CancelEditing ==
    /\ ~panicked /\ is_editing(W)
    /\ SetW(cancel_editing(W))
    /\ edit_target' = 0
    /\ UNCHANGED <<speaker_map, panicked, appended, keys_used>>
    /\ UNCHANGED <<ovars, evars, fvars, xvars>>

\* KeyCode::Enter in edit mode (tui.rs:154-157).
ApplyEdit ==
    /\ ~panicked /\ is_editing(W)
    /\ LET r == apply_edit(W, speaker_map)
       IN  /\ SetW(r.w)
           /\ speaker_map' = r.map
    /\ edit_target' = 0
    /\ UNCHANGED <<panicked, appended, keys_used>>
    /\ UNCHANGED <<ovars, evars, fvars, xvars>>

\* KeyCode::Char(c) in edit mode (tui.rs:170-173).
HandleCharInput(chars) ==
    /\ ~panicked /\ is_editing(W)
    /\ keys_used < MaxKeys
    /\ keys_used' = keys_used + 1
    /\ IF handle_char_input_panics(W)
       THEN /\ panicked' = TRUE
            /\ UNCHANGED wvars
       ELSE /\ \E c \in chars : SetW(handle_char_input(W, c))
            /\ UNCHANGED panicked
    /\ UNCHANGED <<speaker_map, appended, edit_target>>
    /\ UNCHANGED <<ovars, evars, fvars, xvars>>

\* KeyCode::Backspace in edit mode (tui.rs:158-161).
HandleBackspace ==
    /\ ~panicked /\ is_editing(W)
    /\ keys_used < MaxKeys
    /\ keys_used' = keys_used + 1
    /\ IF handle_backspace_panics(W)
       THEN /\ panicked' = TRUE
            /\ UNCHANGED wvars
       ELSE /\ SetW(handle_backspace(W))
            /\ UNCHANGED panicked
    /\ UNCHANGED <<speaker_map, appended, edit_target>>
    /\ UNCHANGED <<ovars, evars, fvars, xvars>>

\* KeyCode::Left in edit mode (tui.rs:162-165).
MoveCursorLeft ==
    /\ ~panicked /\ is_editing(W)
    /\ keys_used < MaxKeys
    /\ keys_used' = keys_used + 1
    /\ SetW(move_cursor_left(W))
    /\ UNCHANGED <<speaker_map, panicked, appended, edit_target>>
    /\ UNCHANGED <<ovars, evars, fvars, xvars>>

\* KeyCode::Right in edit mode (tui.rs:166-169).
MoveCursorRight ==
    /\ ~panicked /\ is_editing(W)
    /\ keys_used < MaxKeys
    /\ keys_used' = keys_used + 1
    /\ SetW(move_cursor_right(W))
    /\ UNCHANGED <<speaker_map, panicked, appended, edit_target>>
    /\ UNCHANGED <<ovars, evars, fvars, xvars>>

(* ------------------------------------------------------------------ *)
(* DeepgramTranscriber::format_response (transcribers/deepgram.rs)      *)
(*                                                                      *)
(* A response is [kind, alternatives]; kind is "Transcript",            *)
(* "SpeechStarted", "UtteranceEnd", "Terminal" or "Other" and only a    *)
(* transcript has alternatives.  An alternative is [transcript, words]  *)
(* and a word is [word, speaker] with speaker an Option<i32>.           *)
(* ------------------------------------------------------------------ *)

TranscriptionResult(transcript, speaker_id) ==
    [transcript |-> transcript, speaker_id |-> speaker_id]

\* "Transcription stream ended" (deepgram.rs:112, main.rs:160).
STREAM_ENDED ==
    <<"T", "r", "a", "n", "s", "c", "r", "i", "p", "t", "i", "o", "n", " ",
      "s", "t", "r", "e", "a", "m", " ", "e", "n", "d", "e", "d">>

\* The four ranges of is_cjk, for the chars of the model.
is_cjk_char(c) == c \in {"U+4E2D", "U+3400", "U+3042", "U+30AB"}

\* DeepgramTranscriber::is_cjk: some char of the text is CJK.
is_cjk(text) == \E i \in DOMAIN text : is_cjk_char(text[i])

Word(word, speaker) == [word |-> word, speaker |-> speaker]

Alternative(transcript, words) == [transcript |-> transcript, words |-> words]

\* The locals of the loop over an alternative's words, with the results
\* so far.
format_start(results) ==
    [current_speaker |-> None, speaker_message |-> <<>>, last_was_cjk |-> FALSE,
     results |-> results]

space_always(st, current_is_cjk) == st.speaker_message # <<>>

\* The condition under which a space goes before the next word
\* (deepgram.rs:79).
space_before(st, current_is_cjk) ==
    st.speaker_message # <<>> /\ ~(st.last_was_cjk /\ current_is_cjk)

\* The speaker of the word differs from the current one (deepgram.rs:62).
speaker_changed(st, w) == w.speaker # st.current_speaker

\* One pass of the loop body (deepgram.rs:60-85).
format_word(st, w) ==
    LET flushed ==
            IF speaker_changed(st, w)
            THEN IF st.current_speaker # None
                 THEN [st EXCEPT
                          !.results = Append(@, TranscriptionResult(
                                          trim(st.speaker_message), st.current_speaker)),
                          !.speaker_message = <<>>,
                          !.last_was_cjk = FALSE,
                          !.current_speaker = w.speaker]
                 ELSE [st EXCEPT !.current_speaker = w.speaker]
            ELSE st
        current_is_cjk == is_cjk(w.word)
        spaced ==
            IF space_before(flushed, current_is_cjk)
            THEN Append(flushed.speaker_message, " ")
            ELSE flushed.speaker_message
    IN  [flushed EXCEPT !.speaker_message = spaced \o w.word,
                        !.last_was_cjk = current_is_cjk]

RECURSIVE format_words(_, _)
format_words(st, words) ==
    IF words = <<>> THEN st ELSE format_words(format_word(st, Head(words)), Tail(words))

\* The body of the loop over the alternatives (deepgram.rs:54-102): the
\* words, the final speaker's message, and the whole transcript when
\* the last word had no speaker.
format_alternative(results, alternative) ==
    LET st == format_words(format_start(results), alternative.words)
        with_final ==
            IF st.current_speaker # None
            THEN Append(st.results, TranscriptionResult(
                            trim(st.speaker_message), st.current_speaker))
            ELSE st.results
    IN  IF st.current_speaker = None /\ alternative.transcript # <<>>
        THEN Append(with_final, TranscriptionResult(alternative.transcript, None))
        ELSE with_final

RECURSIVE format_alternatives(_, _)
format_alternatives(results, alternatives) ==
    IF alternatives = <<>>
    THEN results
    ELSE format_alternatives(format_alternative(results, Head(alternatives)),
                             Tail(alternatives))

\* The results for a terminal response (deepgram.rs:110-115).
terminal_result(response) == <<TranscriptionResult(STREAM_ENDED, None)>>

\* DeepgramTranscriber::format_response
format_response(response) ==
    CASE response.kind = "Transcript" -> format_alternatives(<<>>, response.alternatives)
      [] response.kind = "Terminal" -> terminal_result(response)
      [] OTHER -> <<>>

(* ------------------------------------------------------------------ *)
(* The orchestrator (main.rs), the capture worker threads (main.rs,     *)
(* audio.rs) and the transcription tasks (deepgram.rs).                 *)
(*                                                                      *)
(* A worker is [state, stop, tx]: state is "starting" (the thread runs  *)
(* up to stream.play()), "capturing" (the poll loop) or "exited"; stop  *)
(* is its worker_stop flag; tx is the audio channel its sender is on.   *)
(* A task is [pc, polling, abort, stream, audio_ch, result_ch]: pc is   *)
(* "spawned", "connecting" (awaiting the stream handle), "loop" (the    *)
(* select loop) or "ended"; polling says a runtime thread is inside its *)
(* poll; abort is the cancellation JoinHandle::abort requested; stream  *)
(* is the provider stream: "none", "open" or "closed".  Channels are    *)
(* numbered; main creates an audio and an event channel together and    *)
(* they share the number.                                               *)
(* ------------------------------------------------------------------ *)

worker_spawned_on_next_channel(tx) == [state |-> "starting", stop |-> FALSE, tx |-> tx + 1]

\* AudioCaptureWorker::spawn: the thread as std::thread::spawn leaves it.
worker_spawned(tx) == [state |-> "starting", stop |-> FALSE, tx |-> tx]

\* tokio::spawn of process_audio_stream(audio_rx, result_tx).
task_spawned(ch) ==
    [pc |-> "spawned", polling |-> FALSE, abort |-> FALSE, stream |-> "none",
     audio_ch |-> ch, result_ch |-> ch]

\* A poll loop that looks at the quit flag only.
worker_keeps_running_until_quit(w) == ~should_quit

\* The condition of the worker's poll loop (audio.rs:84).
worker_keeps_running(w) == ~should_quit /\ ~workers[w].stop

\* A thread that has been spawned and has not returned.
worker_alive(w) == workers[w].state # "exited"

join_returns_at_once(w) == TRUE

\* JoinHandle::join returns when the thread has returned (main.rs:69).
join_returns(w) == workers[w].state = "exited"

audio_channel_never_closed(ch) == FALSE

\* Every sender of audio channel ch is dropped: main's and the workers'.
audio_channel_closed(ch) ==
    /\ audio_tx # ch
    /\ \A w \in DOMAIN workers : worker_alive(w) => workers[w].tx # ch

\* The steps of a transcriber restart in the order main takes them
\* (main.rs:194-228).
transcriber_restart_reordered ==
    <<"tr_abort", "tr_stop", "tr_join", "tr_spawn", "tr_channels", "tr_create">>

transcriber_restart_steps ==
    <<"tr_abort", "tr_channels", "tr_stop", "tr_join", "tr_spawn", "tr_create">>

\* The step after step pc of the transcriber restart; the redraw follows
\* the last.
after_step(pc) ==
    LET i == CHOOSE k \in DOMAIN transcriber_restart_steps :
                 transcriber_restart_steps[k] = pc
    IN  IF i = Len(transcriber_restart_steps)
        THEN "redraw"
        ELSE transcriber_restart_steps[i + 1]

\* Where main goes after stop, join and spawn, by the place it is in.
after_stop(pc) ==
    CASE pc = "dev_stop" -> "dev_join"
      [] pc = "shutdown_stop" -> "shutdown_join"
      [] OTHER -> after_step(pc)

after_join(pc) ==
    CASE pc = "dev_join" -> "dev_spawn"
      [] pc = "shutdown_join" -> "shutdown_drop"
      [] OTHER -> after_step(pc)

after_spawn(pc) ==
    CASE pc = "dev_spawn" -> "check_transcriber"
      [] OTHER -> after_step(pc)

\* Where main skips to when stop finds no handle to take.
after_no_handle(pc) ==
    CASE pc = "dev_stop" -> "dev_spawn"
      [] pc = "shutdown_stop" -> "shutdown_drop"
      [] OTHER -> after_step(after_step(pc))

OrchInit ==
    /\ main_pc = "select"
    /\ audio_device_restart_needed = FALSE
    /\ transcriber_restart_needed = FALSE
    /\ should_quit = FALSE
    /\ workers = <<worker_spawned(1)>>
    /\ audio_worker = [id |-> 1, handle |-> TRUE]
    /\ tasks = <<task_spawned(1)>>
    /\ transcription_task = 1
    /\ audio_tx = 1
    /\ result_rx = 1
    /\ restarts = 0
    /\ restart_log = <<>>
    /\ last_io = 0

\* The sources of main's select in the order it polls them
\* (main.rs:136-183, biased): the terminal's event stream, the event
\* channel, the tick.
select_order == <<"input", "events", "tick">>

\* The branch a biased select takes: the first ready one in its order.
first_ready(ready) ==
    select_order[CHOOSE i \in DOMAIN select_order :
                     /\ select_order[i] \in ready
                     /\ \A j \in 1..(i - 1) : select_order[j] \notin ready]

\* Every sender of the event channel main receives from is dropped: a
\* task owns the only sender of its channel until it ends.
result_channel_closed ==
    \A t \in DOMAIN tasks : tasks[t].result_ch = result_rx => tasks[t].pc = "ended"

\* result_rx.recv() is ready: an event is queued, or the channel is
\* closed and recv returns None.
events_ready == result_queue # <<>> \/ result_channel_closed

is_sentinel_never(result) == FALSE

\* transcript == "Transcription stream ended" (main.rs:160, 171)
is_sentinel(result) == result.transcript = STREAM_ENDED

received_first_only(queue) == IF queue = <<>> THEN <<>> ELSE <<Head(queue)>>

\* The events one run of the transcript branch takes off the channel:
\* the one recv returned and those try_recv returns until the channel
\* is empty (main.rs:156, 167).
received(queue) == queue

\* The transcript branch on the events taken (main.rs:157-176): acc is
\* the widget, the number of messages appended so far and the tasks
\* the appended ones came from.
RECURSIVE add_results(_, _, _)
add_results(acc, map, events) ==
    IF events = <<>>
    THEN acc
    ELSE LET e == Head(events)
             next ==
                 IF is_sentinel(e.result)
                 THEN acc
                 ELSE [w |-> add_transcription(acc.w,
                                 message_for(map, e.result.speaker_id,
                                             e.result.transcript, acc.n + 1)),
                       n |-> acc.n + 1,
                       from |-> acc.from \cup {e.from}]
         IN  add_results(next, map, Tail(events))

\* What the terminal's event stream yields (main.rs:138-154): a key
\* press the handler handles without touching the transcript ("key", as
\* the space bar), a key it does not handle ("key_ignored"), a resize,
\* another terminal event or a read error ("other_event"), the end of
\* the stream ("closed"), which leaves the loop at once; and the keys
\* that request a device change, a configuration change or quit.  The
\* two restart flags are set and taken by AppState methods whose bodies
\* are not in state.rs; they follow the specification.
Wakes == {"key", "device", "transcriber", "quit", "closed"}

\* The inputs after which main's needs_redraw is set (main.rs:141-147).
input_always_needs_redraw(kind) == TRUE

input_needs_redraw(kind) == kind \in {"key", "resize", "device", "transcriber", "quit", "pause"}

\* The history of a wake: the branches that were ready, whether an event
\* was queued, the branch taken, what it yielded, the responses behind
\* the events taken off the event channel, the tasks the appended ones
\* came from, and whether the iteration drew a frame.
NoWake ==
    [ready |-> {}, queued |-> FALSE, source |-> "none", kind |-> "none",
     taken |-> <<>>, from |-> {}, drew |-> FALSE]

\* The kinds of response behind a sequence of queued events.
RECURSIVE kinds_of(_)
kinds_of(events) ==
    IF events = <<>> THEN <<>> ELSE <<Head(events).of>> \o kinds_of(Tail(events))

\* AppState::toggle_recording (state.rs:87-105): the pause flag after it.
toggle_recording(paused) == ~paused

\* The event-stream branch of the select (main.rs:138-154); a pause key
\* goes to toggle_recording (tui.rs).
SelectInput(ready, kind, max_restarts) ==
    /\ kind \in {"device", "transcriber"} => restarts < max_restarts
    /\ kind = "pause" => Len(audio_log) < MaxAudioLog
    /\ restarts' = IF kind \in {"device", "transcriber"} THEN restarts + 1 ELSE restarts
    /\ audio_device_restart_needed' = (kind = "device")
    /\ transcriber_restart_needed' = (kind = "transcriber")
    /\ should_quit' = (should_quit \/ kind = "quit")
    /\ main_pc' = IF kind = "closed" THEN "shutdown_stop" ELSE "check_device"
    /\ needs_redraw' = (needs_redraw \/ input_needs_redraw(kind))
    /\ wake' = [NoWake EXCEPT !.ready = ready, !.queued = (result_queue # <<>>), !.source = "input", !.kind = kind]
    /\ is_paused' = IF kind = "pause" THEN toggle_recording(is_paused) ELSE is_paused
    /\ audio_log' = IF kind = "pause"
                    THEN Append(audio_log, [kind |-> IF is_paused THEN "resume" ELSE "pause"])
                    ELSE audio_log
    /\ UNCHANGED <<result_queue, uivars>>

\* The event-channel branch of the select (main.rs:155-178).
SelectEvents(ready) ==
    LET taken == received(result_queue)
        out == add_results([w |-> W, n |-> appended, from |-> {}], speaker_map, taken)
    IN  /\ SetW(out.w)
        /\ appended' = out.n
        /\ result_queue' = SubSeq(result_queue, Len(taken) + 1, Len(result_queue))
        /\ needs_redraw' = (needs_redraw \/ out.n > appended)
        /\ wake' = [NoWake EXCEPT !.ready = ready, !.queued = (result_queue # <<>>), !.source = "events",
                                  !.kind = IF taken = <<>> THEN "none" ELSE "events",
                                  !.taken = kinds_of(taken),
                                  !.from = out.from]
        /\ main_pc' = "check_device"
        /\ UNCHANGED <<speaker_map, panicked, keys_used, edit_target>>
        /\ UNCHANGED <<audio_device_restart_needed, transcriber_restart_needed,
                       should_quit, restarts, is_paused, audio_log>>

\* The tick branch of the select (main.rs:179-182).
SelectTick(ready) ==
    /\ needs_redraw' = TRUE
    /\ wake' = [NoWake EXCEPT !.ready = ready, !.queued = (result_queue # <<>>), !.source = "tick", !.kind = "tick"]
    /\ main_pc' = "check_device"
    /\ UNCHANGED <<result_queue, uivars>>
    /\ UNCHANGED <<audio_device_restart_needed, transcriber_restart_needed,
                   should_quit, restarts, is_paused, audio_log>>

\* One wake of the select (main.rs:136-183).  readies are the ways the
\* event stream and the tick can be ready at the wake; the event channel
\* is ready by its state; max_restarts caps the restart requests of a run.
MainSelect(inputs, readies, max_restarts) ==
    /\ main_pc = "select"
    /\ \E others \in readies :
          LET ready == others \cup (IF events_ready THEN {"events"} ELSE {})
          IN  /\ ready # {}
              /\ \/ first_ready(ready) = "input" /\ \E kind \in inputs :
                        SelectInput(ready, kind, max_restarts)
                 \/ first_ready(ready) = "events" /\ SelectEvents(ready)
                 \/ first_ready(ready) = "tick" /\ SelectTick(ready)
    /\ restart_log' = <<>>
    /\ last_io' = 0
    /\ UNCHANGED <<workers, audio_worker, tasks, transcription_task, audio_tx, result_rx>>
    /\ UNCHANGED <<fvars, svars, callbacks, cvars, mvars, yvars>>

\* if state.take_audio_device_restart_needed() (main.rs:185)
MainCheckDevice ==
    /\ main_pc = "check_device"
    /\ main_pc' = IF audio_device_restart_needed THEN "dev_stop" ELSE "check_transcriber"
    /\ audio_device_restart_needed' = FALSE
    /\ last_io' = 0
    /\ UNCHANGED <<transcriber_restart_needed, should_quit, workers, audio_worker, tasks,
                   transcription_task, audio_tx, result_rx, restarts, restart_log>>
    /\ UNCHANGED <<uivars, evars, fvars, xvars>>

\* AudioCaptureWorker::stop up to the join: take the handle and set the
\* stop flag (main.rs:67-68).
MainStopWorker ==
    /\ main_pc \in {"dev_stop", "tr_stop", "shutdown_stop"}
    /\ IF audio_worker.handle
       THEN /\ workers' = [workers EXCEPT ![audio_worker.id].stop = TRUE]
            /\ audio_worker' = [audio_worker EXCEPT !.handle = FALSE]
            /\ main_pc' = after_stop(main_pc)
       ELSE /\ UNCHANGED <<workers, audio_worker>>
            /\ main_pc' = after_no_handle(main_pc)
    /\ last_io' = 0
    /\ UNCHANGED <<audio_device_restart_needed, transcriber_restart_needed, should_quit,
                   tasks, transcription_task, audio_tx, result_rx, restarts, restart_log>>
    /\ UNCHANGED <<uivars, evars, fvars, xvars>>

\* handle.join() returns (main.rs:69).
MainJoinWorker ==
    /\ main_pc \in {"dev_join", "tr_join", "shutdown_join"}
    /\ join_returns(audio_worker.id)
    /\ main_pc' = after_join(main_pc)
    /\ last_io' = 0
    /\ UNCHANGED <<audio_device_restart_needed, transcriber_restart_needed, should_quit,
                   workers, audio_worker, tasks, transcription_task, audio_tx, result_rx,
                   restarts, restart_log>>
    /\ UNCHANGED <<uivars, evars, fvars, xvars>>

\* *self = Self::spawn(device_index, sender, ...) with sender a clone of
\* audio_tx (main.rs:63, 186-191, 207-212).
MainSpawnWorker ==
    /\ main_pc \in {"dev_spawn", "tr_spawn"}
    /\ workers' = Append(workers, worker_spawned(audio_tx))
    /\ audio_worker' = [id |-> Len(workers) + 1, handle |-> TRUE]
    /\ restart_log' = IF main_pc = "tr_spawn"
                      THEN Append(restart_log, "restart_worker")
                      ELSE restart_log
    /\ main_pc' = after_spawn(main_pc)
    /\ last_io' = 0
    /\ UNCHANGED <<audio_device_restart_needed, transcriber_restart_needed, should_quit,
                   tasks, transcription_task, audio_tx, result_rx, restarts>>
    /\ UNCHANGED <<uivars, evars, fvars, xvars>>

\* A check that also restarts the transcriber when its session has ended.
MainCheckTranscriber_reconnects ==
    /\ main_pc = "check_transcriber"
    /\ main_pc' = IF transcriber_restart_needed \/ tasks[transcription_task].pc = "ended"
                  THEN transcriber_restart_steps[1]
                  ELSE "redraw"
    /\ transcriber_restart_needed' = FALSE
    /\ last_io' = 0
    /\ UNCHANGED <<audio_device_restart_needed, should_quit, workers, audio_worker, tasks,
                   transcription_task, audio_tx, result_rx, restarts, restart_log>>
    /\ session_count' = IF transcriber_restart_needed
                        THEN [session_count EXCEPT !.processed = @ + 1]
                        ELSE session_count
    /\ UNCHANGED <<uivars, evars, fvars, svars, pvars, cvars, mvars, zvars>>

\* if state.take_transcriber_restart_needed() (main.rs:194)
MainCheckTranscriber ==
    /\ main_pc = "check_transcriber"
    /\ main_pc' = IF transcriber_restart_needed
                  THEN transcriber_restart_steps[1]
                  ELSE "redraw"
    /\ transcriber_restart_needed' = FALSE
    /\ last_io' = 0
    /\ UNCHANGED <<audio_device_restart_needed, should_quit, workers, audio_worker, tasks,
                   transcription_task, audio_tx, result_rx, restarts, restart_log>>
    /\ session_count' = IF transcriber_restart_needed
                        THEN [session_count EXCEPT !.processed = @ + 1]
                        ELSE session_count
    /\ UNCHANGED <<uivars, evars, fvars, svars, pvars, cvars, mvars, zvars>>

\* transcription_task.abort() (main.rs:196): the cancellation is
\* requested; it does not wait for the task.
MainAbortTask ==
    /\ main_pc = "tr_abort"
    /\ tasks' = [tasks EXCEPT ![transcription_task].abort =
                    (@ \/ tasks[transcription_task].pc # "ended")]
    /\ restart_log' = Append(restart_log, "abort")
    /\ main_pc' = after_step(main_pc)
    /\ last_io' = 0
    /\ UNCHANGED <<audio_device_restart_needed, transcriber_restart_needed, should_quit,
                   workers, audio_worker, transcription_task, audio_tx, result_rx, restarts>>
    /\ UNCHANGED <<uivars, evars, fvars, xvars>>

\* The replacement of the channels together with a widget built anew.
MainNewChannels_with_new_widget ==
    /\ main_pc = "tr_channels"
    /\ audio_tx' = restarts + 1
    /\ result_rx' = restarts + 1
    /\ restart_log' = Append(restart_log, "channels")
    /\ main_pc' = after_step(main_pc)
    /\ last_io' = 0
    /\ UNCHANGED <<audio_device_restart_needed, transcriber_restart_needed, should_quit,
                   workers, audio_worker, tasks, transcription_task, restarts>>
    /\ result_queue' = <<>>
    /\ SetW(widget_new)
    /\ UNCHANGED <<needs_redraw, wake>>
    /\ UNCHANGED <<speaker_map, panicked, hvars, fvars, xvars>>

\* The new channels replace audio_tx and result_rx (main.rs:199-204).
\* restarts + 1 is a number no earlier channel has.  The new event
\* channel is empty; the old receiver is dropped with what was queued.
MainNewChannels ==
    /\ main_pc = "tr_channels"
    /\ audio_tx' = restarts + 1
    /\ result_rx' = restarts + 1
    /\ restart_log' = Append(restart_log, "channels")
    /\ main_pc' = after_step(main_pc)
    /\ last_io' = 0
    /\ UNCHANGED <<audio_device_restart_needed, transcriber_restart_needed, should_quit,
                   workers, audio_worker, tasks, transcription_task, restarts>>
    /\ result_queue' = <<>>
    /\ UNCHANGED <<needs_redraw, wake>>
    /\ UNCHANGED <<uivars, fvars, xvars>>

\* create_and_init_transcriber and, when it is Ok, tokio::spawn of the
\* run loop on the new channels (main.rs:215-227).
MainCreateTranscriber ==
    /\ main_pc = "tr_create"
    /\ \E created \in BOOLEAN :
          IF created
          THEN /\ tasks' = Append(tasks, task_spawned(audio_tx))
               /\ transcription_task' = Len(tasks) + 1
               /\ restart_log' = Append(restart_log, "open_session")
               /\ UNCHANGED session_count
          ELSE /\ UNCHANGED <<tasks, transcription_task, restart_log>>
               /\ session_count' = [session_count EXCEPT !.failed = @ + 1]
    /\ main_pc' = after_step(main_pc)
    /\ last_io' = 0
    /\ UNCHANGED <<audio_device_restart_needed, transcriber_restart_needed, should_quit,
                   workers, audio_worker, audio_tx, result_rx, restarts>>
    /\ UNCHANGED <<uivars, evars, fvars, svars, pvars, cvars, mvars, zvars>>

\* if needs_redraw { terminal.draw(...); needs_redraw = false }
\* (main.rs:230-233); the draw renders the transcript widget in an area
\* of one of the heights.  The terminal is taken to work: the error
\* returns of draw and of restore_terminal are not followed.
MainRedraw(heights) ==
    /\ main_pc = "redraw"
    /\ main_pc' = "quit_check"
    /\ IF needs_redraw
       THEN \E height \in heights :
               LET s == update_viewport_height(W, height)
               IN  /\ SetW(s)
                   /\ panicked' = render_panics(s)
       ELSE UNCHANGED <<wvars, panicked>>
    /\ needs_redraw' = FALSE
    /\ wake' = [wake EXCEPT !.drew = needs_redraw]
    /\ last_io' = 0
    /\ UNCHANGED <<audio_device_restart_needed, transcriber_restart_needed, should_quit,
                   workers, audio_worker, tasks, transcription_task, audio_tx, result_rx,
                   restarts, restart_log>>
    /\ UNCHANGED <<speaker_map, hvars, result_queue, fvars, xvars>>

\* if state.should_quit() { break } (main.rs:235-237)
MainQuitCheck ==
    /\ main_pc = "quit_check"
    /\ main_pc' = IF should_quit THEN "shutdown_stop" ELSE "select"
    /\ last_io' = 0
    /\ UNCHANGED <<audio_device_restart_needed, transcriber_restart_needed, should_quit,
                   workers, audio_worker, tasks, transcription_task, audio_tx, result_rx,
                   restarts, restart_log>>
    /\ UNCHANGED <<uivars, evars, fvars, xvars>>

\* drop(audio_tx) (main.rs:246)
MainDropAudioTx ==
    /\ main_pc = "shutdown_drop"
    /\ audio_tx' = 0
    /\ main_pc' = "await_task"
    /\ last_io' = 0
    /\ UNCHANGED <<audio_device_restart_needed, transcriber_restart_needed, should_quit,
                   workers, audio_worker, tasks, transcription_task, result_rx,
                   restarts, restart_log>>
    /\ UNCHANGED <<uivars, evars, fvars, xvars>>

\* transcription_task.await returns (main.rs:248)
MainAwaitTask ==
    /\ main_pc = "await_task"
    /\ tasks[transcription_task].pc = "ended"
    /\ main_pc' = "done"
    /\ last_io' = 0
    /\ UNCHANGED <<audio_device_restart_needed, transcriber_restart_needed, should_quit,
                   workers, audio_worker, tasks, transcription_task, audio_tx, result_rx,
                   restarts, restart_log>>
    /\ UNCHANGED <<uivars, evars, fvars, xvars>>

\* What the orchestrator's own steps leave alone when a worker or a task
\* takes a step.
mainvars ==
    <<main_pc, audio_device_restart_needed, transcriber_restart_needed, should_quit,
      audio_worker, transcription_task, audio_tx, result_rx, restarts, restart_log>>

\* The capture thread from its start to stream.play() (audio.rs:55-81):
\* either the stream is playing, or a step failed and the thread returns
\* with the error (main.rs:42-46).
WorkerOpen(w) ==
    /\ workers[w].state = "starting"
    /\ \E opened \in BOOLEAN :
          workers' = [workers EXCEPT ![w].state =
                         IF opened THEN "capturing" ELSE "exited"]
    /\ last_io' = 0
    /\ UNCHANGED <<mainvars, tasks>>
    /\ UNCHANGED <<uivars, evars, fvars, xvars>>

\* The poll loop finds a flag set and the thread returns, dropping the
\* stream and with it the sender (audio.rs:84-88).
WorkerExit(w) ==
    /\ workers[w].state = "capturing"
    /\ ~worker_keeps_running(w)
    /\ workers' = [workers EXCEPT ![w].state = "exited"]
    /\ last_io' = 0
    /\ UNCHANGED <<mainvars, tasks>>
    /\ UNCHANGED <<uivars, evars, fvars, xvars>>

\* The callback returns at once when recording is paused or a send has
\* failed before (audio.rs:106-109).
callback_never_skips(paused, closed) == FALSE

callback_skips(paused, closed) == paused \/ closed

\* The receiver of audio channel ch is held by a task that has not ended.
receiver_alive(ch) ==
    \E t \in DOMAIN tasks : tasks[t].audio_ch = ch /\ tasks[t].pc # "ended"

\* The callback of worker w has found that its channel is closed.
channel_closed(w) == \E c \in callbacks : c.worker = w /\ c.pc = "closed"

\* The device calls the callback of worker w, which loads the pause flag
\* and channel_closed (audio.rs:105-109) and, unless it returns, converts
\* the samples.  limit caps the history.
CallbackBegin(w, limit) ==
    /\ workers[w].state = "capturing"
    /\ \A c \in callbacks : c.worker # w
    /\ Len(audio_log) < limit
    /\ ~callback_skips(is_paused, channel_closed(w))
    /\ callbacks' = callbacks \cup {[worker |-> w, pc |-> "sending", began |-> Len(audio_log)]}
    /\ last_io' = 0
    /\ UNCHANGED <<mainvars, workers, tasks>>
    /\ UNCHANGED <<uivars, evars, fvars, svars, is_paused, audio_log, cvars, mvars, yvars>>

\* tx.send(bytes) at the end of the callback (audio.rs:134-137): the
\* chunk is queued, or the send fails and channel_closed is set.
CallbackSend(w) ==
    /\ \E c \in callbacks :
          /\ c.worker = w
          /\ c.pc = "sending"
          /\ IF receiver_alive(workers[w].tx)
             THEN /\ audio_log' = Append(audio_log,
                                        [kind |-> "chunk", worker |-> w, began |-> c.began])
                  /\ callbacks' = callbacks \ {c}
             ELSE /\ callbacks' = (callbacks \ {c}) \cup {[c EXCEPT !.pc = "closed", !.began = 0]}
                  /\ UNCHANGED audio_log
    /\ last_io' = 0
    /\ UNCHANGED <<mainvars, workers, tasks>>
    /\ UNCHANGED <<uivars, evars, fvars, svars, is_paused, cvars, mvars, yvars>>

\* The task with its future dropped: the provider stream handle, if it
\* had one, goes with it.
task_dropped(t) ==
    [t EXCEPT !.pc = "ended", !.polling = FALSE,
              !.stream = IF t.stream = "open" THEN "closed" ELSE t.stream]

\* The task having left the select loop through a break and closed the
\* stream (deepgram.rs:214).
task_closed(t) == [t EXCEPT !.pc = "ended", !.polling = FALSE, !.stream = "closed"]

\* A runtime thread picks the task up: a task whose abort was requested
\* is cancelled there; another is polled.
TaskPoll(t) ==
    /\ tasks[t].pc # "ended"
    /\ ~tasks[t].polling
    /\ tasks' = [tasks EXCEPT ![t] =
                    IF tasks[t].abort
                    THEN task_dropped(tasks[t])
                    ELSE [tasks[t] EXCEPT !.polling = TRUE]]
    /\ last_io' = 0
    /\ UNCHANGED <<mainvars, workers>>
    /\ UNCHANGED <<uivars, evars, fvars, xvars>>

\* The poll returns Pending at an await.
TaskYield(t) ==
    /\ tasks[t].polling
    /\ tasks[t].pc \in {"connecting", "loop"}
    /\ tasks' = [tasks EXCEPT ![t].polling = FALSE]
    /\ last_io' = 0
    /\ UNCHANGED <<mainvars, workers>>
    /\ UNCHANGED <<uivars, evars, fvars, xvars>>

\* process_audio_stream up to the await of the stream handle
\* (deepgram.rs:142-163).
TaskConnect(t) ==
    /\ tasks[t].polling
    /\ tasks[t].pc = "spawned"
    /\ tasks' = [tasks EXCEPT ![t].pc = "connecting"]
    /\ last_io' = 0
    /\ UNCHANGED <<mainvars, workers>>
    /\ UNCHANGED <<uivars, evars, fvars, xvars>>

\* handle().await? resolves (deepgram.rs:156-165): the stream is open, or
\* the error ends the task.
TaskConnected(t) ==
    /\ tasks[t].polling
    /\ tasks[t].pc = "connecting"
    /\ \E ok \in BOOLEAN :
          tasks' = [tasks EXCEPT ![t] =
                       IF ok
                       THEN [tasks[t] EXCEPT !.pc = "loop", !.stream = "open"]
                       ELSE [tasks[t] EXCEPT !.pc = "ended", !.polling = FALSE]]
    /\ last_io' = 0
    /\ UNCHANGED <<mainvars, workers>>
    /\ UNCHANGED <<uivars, evars, fvars, xvars>>

\* The keep-alive arm (deepgram.rs:169-174).
TaskKeepAlive(t) ==
    /\ tasks[t].polling
    /\ tasks[t].pc = "loop"
    /\ \E ok \in BOOLEAN :
          tasks' = IF ok THEN tasks ELSE [tasks EXCEPT ![t] = task_closed(tasks[t])]
    /\ last_io' = t
    /\ UNCHANGED <<mainvars, workers>>
    /\ UNCHANGED <<uivars, evars, fvars, xvars>>

\* The audio arm with a chunk (deepgram.rs:177-182).
TaskSendAudio(t) ==
    /\ tasks[t].polling
    /\ tasks[t].pc = "loop"
    /\ ~audio_channel_closed(tasks[t].audio_ch)
    /\ \E ok \in BOOLEAN :
          tasks' = IF ok THEN tasks ELSE [tasks EXCEPT ![t] = task_closed(tasks[t])]
    /\ last_io' = t
    /\ UNCHANGED <<mainvars, workers>>
    /\ UNCHANGED <<uivars, evars, fvars, xvars>>

\* The audio arm with the channel closed: finalize, then leave the loop
\* (deepgram.rs:183-189).
TaskFinalize(t) ==
    /\ tasks[t].polling
    /\ tasks[t].pc = "loop"
    /\ audio_channel_closed(tasks[t].audio_ch)
    /\ tasks' = [tasks EXCEPT ![t] = task_closed(tasks[t])]
    /\ last_io' = 0
    /\ UNCHANGED <<mainvars, workers>>
    /\ UNCHANGED <<uivars, evars, fvars, xvars>>

send_never_fails(t) == FALSE

\* result_sender.send fails: the receiver of the task's event channel is
\* dropped (deepgram.rs:198).
send_fails(t) == tasks[t].result_ch # result_rx

\* The events of a response put on the channel last result first.
RECURSIVE queued_last_first(_, _, _)
queued_last_first(rs, t, kind) ==
    IF rs = <<>>
    THEN <<>>
    ELSE queued_last_first(Tail(rs), t, kind) \o <<[result |-> Head(rs), from |-> t, of |-> kind]>>

\* The events of a response as they sit in the channel, with the task
\* and the kind of response they came from as history.
RECURSIVE queued(_, _, _)
queued(rs, t, kind) ==
    IF rs = <<>>
    THEN <<>>
    ELSE <<[result |-> Head(rs), from |-> t, of |-> kind]>> \o queued(Tail(rs), t, kind)

\* The receive arm (deepgram.rs:192-210): a response, whose results are
\* sent to main until a send fails, or an error or the end of the
\* stream, which leave the loop.  limit caps the events a run holds.
TaskReceive(t, responses, limit) ==
    /\ tasks[t].polling
    /\ tasks[t].pc = "loop"
    /\ \/ /\ \E r \in responses :
                LET rs == format_response(r)
                IN  IF send_fails(t)
                    THEN UNCHANGED result_queue
                    ELSE /\ appended + Len(result_queue) + Len(rs) <= limit
                         /\ result_queue' = result_queue \o queued(rs, t, r.kind)
          /\ UNCHANGED tasks
       \/ /\ tasks' = [tasks EXCEPT ![t] = task_closed(tasks[t])]
          /\ UNCHANGED result_queue
    /\ last_io' = t
    /\ UNCHANGED <<mainvars, workers>>
    /\ UNCHANGED <<uivars, needs_redraw, wake, fvars, xvars>>

\* Responses without transcript events.
QuietResponses == {[kind |-> "SpeechStarted", alternatives |-> <<>>]}

\* The state before format_response is handed a response.
FormatInit ==
    /\ fr_response = [kind |-> "Other", alternatives |-> <<>>]
    /\ fr_results = None

EventInit ==
    /\ result_queue = <<>>
    /\ needs_redraw = TRUE
    /\ wake = NoWake

(* ------------------------------------------------------------------ *)
(* The configuration manager (config.rs)                                *)
(* ------------------------------------------------------------------ *)

\* Numbers are f64 in the code; here they are counted in thousandths,
\* which holds every value the fields and the calls below involve;
\* EPSILON (config.rs:233) is below one thousandth, so two numbers are
\* within it only when they are equal.

\* A Select field with its stored value (None: not in values) and the
\* number of times persist has written the file.  The file system is
\* taken to work: the error return of persist is not followed.
SelectField(default, options, stored) ==
    [kind |-> "Select", default |-> default, options |-> options,
     stored |-> stored, writes |-> 0]

\* A Number field: NumberField default, min, max and precision.
NumberField(default, min_, max_, precision, stored) ==
    [kind |-> "Number", default |-> default, min |-> min_, max |-> max_,
     precision |-> precision, stored |-> stored, writes |-> 0]

\* The result of a call: the manager after it and what it returned.
Returned(c, ret) == [c |-> c, ret |-> ret]

\* self.values.remove / insert, then self.persist()
stored_and_persisted(c, value) ==
    [c EXCEPT !.stored = IF value = c.default THEN None ELSE Some(value),
              !.writes = @ + 1]

option_values(c) == {c.options[i] : i \in DOMAIN c.options}

\* ConfigManager::select_value (config.rs:410-427)
select_value(c) ==
    LET value == IF c.stored # None THEN c.stored[1] ELSE c.default
    IN  IF value \in option_values(c) THEN value ELSE c.default

\* ConfigManager::set_select (config.rs:430-466)
set_select(c, value) ==
    IF c.kind # "Select" \/ value \notin option_values(c)
    THEN Returned(c, "Err")
    ELSE LET current == IF c.stored # None THEN c.stored[1] ELSE c.default
         IN  IF current = value
             THEN Returned(c, "false")
             ELSE Returned(stored_and_persisted(c, value), "true")

\* options.iter().position(|opt| opt.value == current).unwrap_or(0),
\* 0-based.
position(options, value) ==
    IF \E i \in DOMAIN options : options[i] = value
    THEN (CHOOSE i \in DOMAIN options :
             options[i] = value /\ \A j \in 1..(i - 1) : options[j] # value) - 1
    ELSE 0

\* The % of isize: the remainder has the sign of the dividend.
rem(a, n) == IF a >= 0 THEN a % n ELSE -((-a) % n)

\* The next index, at the first option of equal value whatever the
\* option the value was taken from.
next_index_by_value(options, current, direction) ==
    rem(rem(position(options, current) + direction, Len(options)) + Len(options),
        Len(options))

\* ConfigManager::cycle_select (config.rs:469-494)
cycle_select(c, direction) ==
    IF c.kind # "Select"
    THEN Returned(c, "Err")
    ELSE IF c.options = <<>>
         THEN Returned(c, "false")
         ELSE set_select(c, c.options[next_index_by_value(c.options, select_value(c),
                                                          direction) + 1])

\* clamp_number (config.rs:728-737)
clamp_number(field, value) == min(max(value, field.min), field.max)

\* The thousandths in one unit of the last place kept.
unit_of(precision) ==
    CASE precision = 0 -> 1000 [] precision = 1 -> 100 [] precision = 2 -> 10
      [] OTHER -> 1

\* f64::round of a / b: to the nearest integer, halves away from zero.
round_div(a, b) ==
    IF a >= 0 THEN (2 * a + b) \div (2 * b) ELSE -((2 * (-a) + b) \div (2 * b))

\* round_to_precision (config.rs:739-746)
round_to_precision(value, precision) ==
    round_div(value, unit_of(precision)) * unit_of(precision)

\* ConfigManager::number_value (config.rs:321-338)
number_value(c) ==
    clamp_number(c, IF c.stored # None THEN c.stored[1] ELSE c.default)

\* A comparison with what is stored alone.
number_changed_from_stored(c, new_value) ==
    c.stored = None \/ c.stored[1] # new_value

\* changed (config.rs:354-358): against the stored number, or against
\* the default when none is stored.
number_changed(c, new_value) ==
    IF c.stored # None THEN c.stored[1] # new_value ELSE new_value # c.default

\* ConfigManager::set_number (config.rs:341-380)
set_number(c, value) ==
    IF c.kind # "Number"
    THEN Returned(c, "Err")
    ELSE LET new_value == round_to_precision(clamp_number(c, value), c.precision)
         IN  IF ~number_changed(c, new_value)
             THEN Returned(c, "false")
             ELSE Returned(stored_and_persisted(c, new_value), "true")

\* The value a field has for its readers.
field_value(c) == IF c.kind = "Select" THEN select_value(c) ELSE number_value(c)

\* A call on the manager, for the history.
Call(op, arg, before, r) ==
    [op |-> op, arg |-> arg, ret |-> r.ret, before |-> before, after |-> r.c]

\* with_default_schema with nothing on disk: ui.theme.accent_color,
\* shortened to two options (config.rs:817-831).
ConfigInit ==
    /\ config = SelectField("a", <<"a", "b">>, None)
    /\ config_log = <<>>

\* set_select(key, value) on the field
SetSelect(values) ==
    /\ Len(config_log) < MaxConfigCalls
    /\ \E value \in values :
          LET r == set_select(config, value)
          IN  /\ config' = r.c
              /\ config_log' = Append(config_log, Call("set_select", value, config, r))
    /\ UNCHANGED <<uivars, ovars, evars, fvars, svars, pvars, mvars, yvars>>

\* cycle_select(key, direction) on the field (settings_dialog.rs:289-298)
CycleSelect ==
    /\ Len(config_log) < MaxConfigCalls
    /\ \E direction \in {-1, 1} :
          LET r == cycle_select(config, direction)
          IN  /\ config' = r.c
              /\ config_log' = Append(config_log, Call("cycle_select", direction, config, r))
    /\ UNCHANGED <<uivars, ovars, evars, fvars, svars, pvars, mvars, yvars>>

\* set_number(key, value) on the field
SetNumber(values) ==
    /\ Len(config_log) < MaxConfigCalls
    /\ \E value \in values :
          LET r == set_number(config, value)
          IN  /\ config' = r.c
              /\ config_log' = Append(config_log, Call("set_number", value, config, r))
    /\ UNCHANGED <<uivars, ovars, evars, fvars, svars, pvars, mvars, yvars>>

(* ------------------------------------------------------------------ *)
(* The AppModel and its events (event_handler.rs)                       *)
(* ------------------------------------------------------------------ *)

\* AppEvent (event_handler.rs:5-29); TranscriptionReceived carries a text.
AppEvent(kind, text) == [kind |-> kind, text |-> text]

\* AppModel::new(devices) as test_state_transitions finds it
\* (event_handler.rs:171-172) and as ui.rs reads it: the state, the
\* devices and the one selected, the transcript lines and the scroll
\* position, the status line and the exit flag.
model_new(devices) ==
    [state |-> "SelectingDevice", devices |-> devices, selected_device |-> 0,
     transcript_lines |-> <<>>, scroll_position |-> 0, status |-> "",
     should_exit |-> FALSE]

\* The methods of AppModel that update_model calls.
model_set_state(m, state) == [m EXCEPT !.state = state]

model_set_status(m, status) == [m EXCEPT !.status = status]

model_clear_transcript(m) == [m EXCEPT !.transcript_lines = <<>>, !.scroll_position = 0]

model_add_transcript_line(m, text) ==
    [m EXCEPT !.transcript_lines = Append(@, text)]

model_select_prev_device(m) ==
    [m EXCEPT !.selected_device = saturating_sub(@, 1)]

model_select_next_device(m) ==
    [m EXCEPT !.selected_device = min(@ + 1, saturating_sub(m.devices, 1))]

model_scroll_transcript_up(m) ==
    [m EXCEPT !.scroll_position = saturating_sub(@, 1)]

model_scroll_transcript_down(m) ==
    [m EXCEPT !.scroll_position = min(@ + 1, saturating_sub(Len(m.transcript_lines), 1))]

\* A model that takes a transcription in whatever state it is.
accepts_transcription_always(state) == TRUE

\* model.state == Recording || model.state == Transcribing
\* (event_handler.rs:87)
accepts_transcription(state) == state \in {"Recording", "Transcribing"}

\* update_model (event_handler.rs:50-111)
update_model(m, event) ==
    CASE event.kind = "SelectPrev" ->
            IF m.state = "SelectingDevice" THEN model_select_prev_device(m)
            ELSE IF m.state = "Done" THEN model_scroll_transcript_up(m)
            ELSE m
      [] event.kind = "SelectNext" ->
            IF m.state = "SelectingDevice" THEN model_select_next_device(m)
            ELSE IF m.state = "Done" THEN model_scroll_transcript_down(m)
            ELSE m
      [] event.kind = "Confirm" ->
            IF m.state = "SelectingDevice"
            THEN model_set_status(model_set_state(m, "ReadyToRecord"), "Ready to record")
            ELSE m
      [] event.kind = "StartRecording" ->
            IF m.state = "ReadyToRecord"
            THEN model_set_status(model_clear_transcript(model_set_state(m, "Recording")),
                                  "Recording")
            ELSE m
      [] event.kind = "ScrollUp" -> model_scroll_transcript_up(m)
      [] event.kind = "ScrollDown" -> model_scroll_transcript_down(m)
      [] event.kind = "TranscriptionReceived" ->
            IF accepts_transcription(m.state)
            THEN model_set_status(model_add_transcript_line(m, event.text), "Transcribing")
            ELSE m
      [] event.kind = "RecordingFinished" ->
            IF m.state = "Recording"
            THEN model_set_status(model_set_state(m, "Transcribing"), "Waiting")
            ELSE m
      [] event.kind = "TranscriptionFinished" ->
            IF m.state = "Transcribing"
            THEN model_set_status(model_set_state(m, "Done"), "Done")
            ELSE m
      [] event.kind = "Quit" -> [m EXCEPT !.should_exit = TRUE]
      [] OTHER -> m

\* The events of the runs of SpecModel.
AppEvents ==
    {AppEvent(k, "") :
        k \in {"SelectPrev", "SelectNext", "Confirm", "StartRecording", "Quit",
               "ScrollUp", "ScrollDown", "RecordingFinished", "TranscriptionFinished",
               "Tick"}}
    \cup {AppEvent("TranscriptionReceived", "x")}

\* The model of two devices before its first event.
ModelInit ==
    /\ model = model_new(2)
    /\ model_event = None

\* update_model(&mut model, event); limit caps the transcript lines.
UpdateModel(events, limit) ==
    /\ \E event \in events :
          /\ Len(update_model(model, event).transcript_lines) <= limit
          /\ model' = update_model(model, event)
          /\ model_event' = Some(event)
    /\ UNCHANGED <<uivars, ovars, evars, fvars, svars, pvars, cvars, yvars>>

\* AppState::new has found one input device and taken it (state.rs:46-49).
StartedInit ==
    /\ enumerated = Some(1)
    /\ current_device_index = 0

\* AppState::new: recording, not paused (state.rs:53); no callback has run.
PauseInit ==
    /\ is_paused = FALSE
    /\ audio_log = <<>>
    /\ callbacks = {}

\* The first session is open; no configuration change has been processed.
SessionInit == session_count = [processed |-> 0, failed |-> 0]

(* ------------------------------------------------------------------ *)
(* The run loop of a session (deepgram.rs:165-212)                      *)
(* ------------------------------------------------------------------ *)

\* The stream is open and the loop is at its select: the interval's first
\* tick is due at once (tokio::time::interval), nothing is queued.
\* kept, sent and got change with every keep-alive sent, chunk forwarded
\* and response received.
RunInit ==
    run_loop = [pc |-> "select", due |-> TRUE, audio |-> 0, closed |-> FALSE,
                responses |-> 0, kept |-> FALSE, sent |-> FALSE, got |-> FALSE]

\* The arms of the select whose future is ready: the interval's tick, the
\* audio receiver (a chunk, or None when every sender is dropped), the
\* provider stream.
run_ready(r) ==
    (IF r.due THEN {"keep_alive"} ELSE {})
    \cup (IF r.audio > 0 \/ r.closed THEN {"audio"} ELSE {})
    \cup (IF r.responses > 0 THEN {"receive"} ELSE {})

\* The arms in the order the source lists them.
run_order == <<"keep_alive", "audio", "receive">>

\* A select that takes the first ready arm in the order of the source.
run_select_in_order(ready) ==
    {run_order[i] : i \in {j \in DOMAIN run_order :
                              /\ run_order[j] \in ready
                              /\ \A k \in 1..(j - 1) : run_order[k] \notin ready}}

\* tokio::select! without `biased` (deepgram.rs:168): the arms are polled
\* from a random start, so any ready arm may be the one taken.
run_select(ready) == ready

RunStep(r) ==
    /\ run_loop' = r
    /\ UNCHANGED <<uivars, ovars, evars, fvars, svars, pvars, cvars, mvars, nvars, dvars,
                   avars, rvars>>

\* The interval reaches its next tick.
RunTick ==
    /\ run_loop.pc # "ended"
    /\ ~run_loop.due
    /\ RunStep([run_loop EXCEPT !.due = TRUE])

\* A capture callback sends a chunk on the audio channel.
RunAudioArrives ==
    /\ run_loop.pc # "ended"
    /\ ~run_loop.closed
    /\ run_loop.audio < MaxQueued
    /\ RunStep([run_loop EXCEPT !.audio = @ + 1])

\* The last sender of the audio channel is dropped.
RunAudioCloses ==
    /\ run_loop.pc # "ended"
    /\ ~run_loop.closed
    /\ RunStep([run_loop EXCEPT !.closed = TRUE])

\* The provider has a response for the session.
RunResponseArrives ==
    /\ run_loop.pc # "ended"
    /\ run_loop.responses < MaxQueued
    /\ RunStep([run_loop EXCEPT !.responses = @ + 1])

\* The keep-alive arm is taken: handle.keep_alive() is awaited
\* (deepgram.rs:169-170).
RunKeepAlive ==
    /\ run_loop.pc = "select"
    /\ "keep_alive" \in run_select(run_ready(run_loop))
    /\ RunStep([run_loop EXCEPT !.pc = "keep_alive", !.due = FALSE])

\* The audio arm is taken (deepgram.rs:176-190): a chunk goes to
\* handle.send_data(), which is awaited; None finalizes and leaves the
\* loop.
RunAudio ==
    /\ run_loop.pc = "select"
    /\ "audio" \in run_select(run_ready(run_loop))
    /\ RunStep(IF run_loop.audio > 0
               THEN [run_loop EXCEPT !.pc = "send_data", !.audio = @ - 1]
               ELSE [run_loop EXCEPT !.pc = "ended"])

\* The receive arm is taken (deepgram.rs:192-210): the results of a
\* response are sent on the event channel, which does not wait; an error
\* or the end of the stream leaves the loop.
RunReceive ==
    /\ run_loop.pc = "select"
    /\ "receive" \in run_select(run_ready(run_loop))
    /\ \E ok \in BOOLEAN :
          RunStep(IF ok
                  THEN [run_loop EXCEPT !.responses = @ - 1, !.got = ~@]
                  ELSE [run_loop EXCEPT !.responses = @ - 1, !.pc = "ended"])

\* The call an arm awaits returns: the loop goes on, or the error leaves
\* it (deepgram.rs:170-173, 179-182).
RunAwait ==
    /\ run_loop.pc \in {"keep_alive", "send_data"}
    /\ \E ok \in BOOLEAN :
          RunStep(IF ~ok
                  THEN [run_loop EXCEPT !.pc = "ended"]
                  ELSE IF run_loop.pc = "keep_alive"
                       THEN [run_loop EXCEPT !.pc = "select", !.kept = ~@]
                       ELSE [run_loop EXCEPT !.pc = "select", !.sent = ~@])

(* ------------------------------------------------------------------ *)
(* The selection of the input device                                    *)
(* (state.rs:148-162, 255-359; audio.rs:10-53; widgets/device_dialog.rs) *)
(* ------------------------------------------------------------------ *)

\* The names input devices have.
DeviceNames == {"a", "b"}

\* What an enumeration of the host returns: the names in the order of
\* this call, up to MaxDevices of them; None for an error and for no
\* device (audio.rs:10-25).  The order and the devices present may
\* differ from one call to the next.
DeviceEnumerations ==
    {None} \cup
    {Some(l) : l \in {q \in SeqsUpTo(DeviceNames, MaxDevices) :
                        /\ q # <<>>
                        /\ \A i, j \in DOMAIN q : i # j => q[i] # q[j]}}

\* The entry "audio.input.device" as load_from_disk leaves it: the
\* options of the enumeration made when the schema was built
\* (config.rs:757), the first as default, and the stored value, absent
\* or one of them.
DeviceFields ==
    {SelectField(l[1][1], l[1], stored) :
        l \in DeviceEnumerations \ {None},
        stored \in {None} \cup {Some(v) : v \in DeviceNames}}

PersistedDeviceFields ==
    {c \in DeviceFields : c.stored # None => c.stored[1] \in option_values(c)}

\* devices.iter().position(|name| name == &desired)
device_position(devices, name) ==
    IF \E i \in DOMAIN devices : devices[i] = name
    THEN Some((CHOOSE i \in DOMAIN devices :
                  /\ devices[i] = name
                  /\ \A j \in DOMAIN devices : devices[j] = name => i <= j) - 1)
    ELSE None

\* ConfigManager::update_select_options (config.rs:497-530) with a list
\* that is not empty and a default: the stored value is kept when it is
\* among the new options, and the default takes its place otherwise.
update_select_options(c, options, default) ==
    LET c1 == [c EXCEPT !.options = options, !.default = default]
        stored_valid == IF c.stored # None /\ c.stored[1] \in option_values(c1)
                        THEN c.stored ELSE None
        effective_value == IF stored_valid # None THEN stored_valid[1] ELSE default
    IN  set_select([c1 EXCEPT !.stored = c.stored], effective_value).c

\* The refresh of the options is needed (state.rs:286-308).
needs_option_refresh(c, devices) ==
    c.options # devices \/ devices[1] # c.default

\* resolve_audio_device (state.rs:261-359) on what the enumeration
\* returned: the index and the name of the active device and the entry
\* after the call.
resolve_audio_device_in(c, enumeration) ==
    IF enumeration = None
    THEN [c |-> c, index |-> 0, name |-> "Unknown Device"]
    ELSE LET devices == enumeration[1]
             c1 == IF needs_option_refresh(c, devices)
                   THEN update_select_options(c, devices, devices[1])
                   ELSE c
             desired == select_value(c1)
             found == device_position(devices, desired)
         IN  IF found # None
             THEN [c |-> c1, index |-> found[1], name |-> desired]
             ELSE [c |-> set_select(c1, devices[1]).c, index |-> 0, name |-> devices[1]]

\* audio::get_device_name (audio.rs:27-39)
get_device_name(index, enumeration) ==
    IF enumeration = None \/ index >= Len(enumeration[1])
    THEN None
    ELSE Some(enumeration[1][index + 1])

\* audio::get_device_by_index (audio.rs:41-53): the device at the index
\* in the enumeration this call makes.
get_device_by_index(index, enumeration) ==
    get_device_name(index, enumeration)

\* DeviceDialogState::new (device_dialog.rs:17-23)
DeviceDialogState(devices, index) ==
    [devices |-> devices, selected_index |-> index, current_device_index |-> index]

\* DeviceDialogState::select_previous (device_dialog.rs:26-30)
select_previous(d) ==
    IF d.selected_index > 0 THEN [d EXCEPT !.selected_index = @ - 1] ELSE d

\* DeviceDialogState::select_next (device_dialog.rs:33-37)
select_next(d) ==
    IF d.selected_index < saturating_sub(Len(d.devices), 1)
    THEN [d EXCEPT !.selected_index = @ + 1]
    ELSE d

\* Before AppState::new.  History: persisted and enumeration are the
\* stored selection ("" for none) and the list resolve_audio_device met, selected the name the
\* user chose in the dialog, opened what the worker spawned last opened,
\* changes the number of choices made.
DeviceInit ==
    device = [pc |-> "new", config |-> SelectField("a", <<"a">>, None),
              name |-> "Unknown Device", dialog |-> None,
              persisted |-> "", enumeration |-> None,
              selected |-> "", opened |-> None, spawned |-> FALSE, changes |-> 0]

DeviceStep(d, index) ==
    /\ device' = d
    /\ current_device_index' = index
    /\ UNCHANGED <<uivars, ovars, evars, fvars, enumerated, pvars, cvars, mvars, nvars, lvars,
                   avars, rvars>>

\* AppState::new (state.rs:46-62) on the configuration of the disk.
DeviceNewState ==
    /\ device.pc = "new"
    /\ \E c \in PersistedDeviceFields, enumeration \in DeviceEnumerations :
          LET r == resolve_audio_device_in(c, enumeration)
          IN  DeviceStep([device EXCEPT !.pc = "run", !.config = r.c, !.name = r.name,
                                        !.persisted = IF c.stored # None THEN c.stored[1] ELSE "",
                                        !.enumeration = enumeration],
                         r.index)

\* App::open_device_dialog (tui.rs:67-72) on KeyCode::Char('d')
\* (tui.rs:189-191)
DeviceOpenDialog ==
    /\ device.pc = "run"
    /\ device.dialog = None
    /\ \E enumeration \in DeviceEnumerations :
          DeviceStep(IF enumeration = None
                     THEN device
                     ELSE [device EXCEPT !.dialog =
                              Some(DeviceDialogState(enumeration[1], current_device_index))],
                     current_device_index)

\* KeyCode::Up and KeyCode::Down in the dialog (tui.rs:127-134)
DeviceDialogMove ==
    /\ device.dialog # None
    /\ \E d \in {select_previous(device.dialog[1]), select_next(device.dialog[1])} :
          DeviceStep([device EXCEPT !.dialog = Some(d)], current_device_index)

\* KeyCode::Esc in the dialog (tui.rs:123-126)
DeviceDialogEsc ==
    /\ device.dialog # None
    /\ DeviceStep([device EXCEPT !.dialog = None], current_device_index)

\* KeyCode::Enter in the dialog (tui.rs:135-141): set_device_index
\* (state.rs:148-162), which enumerates again for the name.
DeviceDialogEnter(limit) ==
    /\ device.dialog # None
    /\ device.changes < limit
    /\ \E enumeration \in DeviceEnumerations :
          LET d == device.dialog[1]
              index == d.selected_index
              found == get_device_name(index, enumeration)
              name == IF found = None THEN "Unknown Device" ELSE found[1]
          IN  DeviceStep([device EXCEPT
                             !.dialog = None,
                             !.name = name,
                             !.config = set_select(device.config, name).c,
                             !.selected = IF index < Len(d.devices)
                                          THEN d.devices[index + 1] ELSE "",
                             !.opened = None,
                             !.spawned = FALSE,
                             !.changes = @ + 1],
                         index)

\* A worker is spawned with state.current_device_index() (main.rs:110,
\* 186, 207) and opens its device (audio.rs:72).
DeviceWorkerOpens ==
    /\ device.pc = "run"
    /\ \E enumeration \in DeviceEnumerations :
          DeviceStep([device EXCEPT
                         !.opened = get_device_by_index(current_device_index, enumeration),
                         !.spawned = TRUE],
                     current_device_index)

NextDevice ==
    \/ DeviceNewState
    \/ DeviceOpenDialog
    \/ DeviceDialogMove
    \/ DeviceDialogEsc
    \/ DeviceDialogEnter(MaxDeviceChanges)
    \/ DeviceWorkerOpens

(* ------------------------------------------------------------------ *)
(* App::handle_key_event (tui.rs:101-219) and the settings dialog       *)
(* (widgets/settings_dialog.rs:141-315)                                 *)
(* ------------------------------------------------------------------ *)

\* The keys pressed: KeyCode::Esc, Up, Down, Tab, Enter, Left, Right,
\* Backspace, and KeyCode::Char of the char.
CharKeys == {" ", "q", "d", "s", "x"}

Keys == {"Esc", "Up", "Down", "Tab", "Enter", "Left", "Right", "Backspace"} \cup CharKeys

\* The kinds of field of the entry selected in the settings dialog.
EntryKinds == {"Toggle", "Number", "Select", "Text"}

\* SettingsDialogState: the field of the selected entry and whether a
\* text is being edited.
SettingsDialogState(field) == [field |-> field, editing |-> FALSE]

\* DialogEvent (settings_dialog.rs:122-136) with the dialog after the key.
DialogEvent(d, handled, close) == [d |-> d, handled |-> handled, close |-> close]

\* SettingsDialogState::handle_key_event (settings_dialog.rs:141-315);
\* moved is the field of the entry a move of the selection lands on.
settings_handle_key_event(d, key, moved) ==
    IF d.editing
    THEN DialogEvent(IF key \in {"Esc", "Enter"} THEN [d EXCEPT !.editing = FALSE] ELSE d,
                     TRUE, FALSE)
    ELSE IF key = "Esc"
    THEN DialogEvent(d, TRUE, TRUE)
    ELSE IF key \in {"Up", "Down", "Tab"}
    THEN DialogEvent([d EXCEPT !.field = moved], TRUE, FALSE)
    ELSE IF \/ d.field = "Toggle" /\ key \in {" ", "Enter"}
            \/ d.field = "Number" /\ key \in {"Left", "Right"}
            \/ d.field = "Select" /\ key \in {"Left", "Right", "Enter", " "}
    THEN DialogEvent(d, TRUE, FALSE)
    ELSE IF d.field = "Text" /\ key \in ({"Enter"} \cup CharKeys)
    THEN DialogEvent([d EXCEPT !.editing = TRUE], TRUE, FALSE)
    ELSE DialogEvent(d, FALSE, FALSE)

\* History of a key: the key, whether a dialog was open when it was
\* pressed, and what the normal key handling did with it, "none" when
\* the key did not get there.
KeyHandled(key, modal, normal) == [key |-> key, modal |-> modal, normal |-> normal]

\* The normal key handling (tui.rs:180-218).
normal_action(key) ==
    CASE key \in {"q", "Esc"} -> "quit"
      [] key = " " -> "toggle_recording"
      [] key = "d" -> "open_device_dialog"
      [] key = "s" -> "toggle_settings_dialog"
      [] key = "Enter" -> "start_editing"
      [] key \in {"Up", "Down"} -> "scroll"
      [] key \in {"Left", "Right"} -> "focus"
      [] OTHER -> "unhandled"

\* App::handle_key_event (tui.rs:101-219) for a key press; first is the
\* field of the first entry of the settings, enumerated_ok whether
\* list_audio_devices returns devices, focused whether the transcript has
\* a focused row for start_editing to edit.
handle_key_event(a, key, moved, first, enumerated_ok, focused) ==
    LET modal == a.settings # None \/ a.device
        r == settings_handle_key_event(a.settings[1], key, moved)
    IN  IF a.settings # None /\ r.handled
        THEN [a EXCEPT !.settings = IF r.close THEN None ELSE Some(r.d),
                       !.last = KeyHandled(key, modal, "none")]
        ELSE IF a.device
        THEN [a EXCEPT !.device = (key \notin {"Esc", "Enter"}),
                       !.last = KeyHandled(key, modal, "none")]
        ELSE IF a.editing
        THEN [a EXCEPT !.editing = (key \notin {"Esc", "Enter"}),
                       !.last = KeyHandled(key, modal, "none")]
        ELSE LET did == normal_action(key)
                 b == [a EXCEPT !.last = KeyHandled(key, modal, did)]
             IN  CASE did = "open_device_dialog" ->
                        [b EXCEPT !.device = enumerated_ok]
                   [] did = "toggle_settings_dialog" ->
                        IF a.settings # None
                        THEN [b EXCEPT !.settings = None]
                        ELSE [b EXCEPT !.settings = Some(SettingsDialogState(first)),
                                       !.device = FALSE]
                   [] did = "start_editing" ->
                        [b EXCEPT !.editing = focused]
                   [] OTHER -> b

\* App::new: no dialog, no edit.
AppInit ==
    app = [settings |-> None, device |-> FALSE, editing |-> FALSE,
           last |-> KeyHandled("none", FALSE, "none")]

\* A key press reaches App::handle_key_event (main.rs:140-143).
HandleKeyEvent ==
    /\ \E key \in Keys, moved \in EntryKinds, first \in EntryKinds,
          enumerated_ok \in BOOLEAN, focused \in BOOLEAN :
          app' = handle_key_event(app, key, moved, first, enumerated_ok, focused)
    /\ UNCHANGED <<uivars, ovars, evars, fvars, svars, pvars, cvars, mvars, nvars, lvars,
                   dvars, rvars>>

NextKeys == HandleKeyEvent

(* ------------------------------------------------------------------ *)
(* The recording time (state.rs:36-43, 87-126)                          *)
(* ------------------------------------------------------------------ *)

\* AppState::new (state.rs:52-58) at time 0 of the clock.  History:
\* recorded is the time spent in the Recording state so far.
RecordingInit ==
    recording = [now |-> 0, is_paused |-> FALSE, start_time |-> 0,
                 elapsed_recording_time |-> 0, last_pause_time |-> None,
                 recorded |-> 0]

\* AppState::get_recording_time (state.rs:116-126)
get_recording_time(r) ==
    IF r.is_paused
    THEN r.elapsed_recording_time
    ELSE r.elapsed_recording_time + (r.now - r.start_time)

\* AppState::toggle_recording (state.rs:87-105) with the session.
toggle_recording_session(r) ==
    IF r.is_paused
    THEN [r EXCEPT !.elapsed_recording_time =
                       IF r.last_pause_time # None
                       THEN @ + (r.last_pause_time[1] - r.start_time)
                       ELSE @,
                   !.start_time = r.now,
                   !.last_pause_time = None,
                   !.is_paused = toggle_recording(r.is_paused)]
    ELSE [r EXCEPT !.last_pause_time = Some(r.now),
                   !.is_paused = toggle_recording(r.is_paused)]

RecordingStep(r) ==
    /\ recording' = r
    /\ UNCHANGED <<uivars, ovars, evars, fvars, svars, pvars, cvars, mvars, nvars, lvars,
                   dvars, avars>>

\* The clock advances by up to steps ticks, limit being the end of the run.
ClockAdvances(steps, limit) ==
    \E d \in 1..steps :
        /\ recording.now + d <= limit
        /\ RecordingStep([recording EXCEPT
                             !.now = @ + d,
                             !.recorded = IF recording.is_paused THEN @ ELSE @ + d])

\* The space bar (tui.rs:184-187)
ToggleRecording == RecordingStep(toggle_recording_session(recording))

NextRecording ==
    \/ ClockAdvances(2, MaxClock)
    \/ ToggleRecording

LaterInit == SessionInit /\ RunInit /\ DeviceInit /\ AppInit /\ RecordingInit

ExtraInit == StartedInit /\ PauseInit /\ ConfigInit /\ ModelInit /\ LaterInit

Init == UiInit /\ OrchInit /\ EventInit /\ FormatInit /\ ExtraInit

(* ------------------------------------------------------------------ *)
(* The start of main (main.rs:75-128)                                   *)
(* ------------------------------------------------------------------ *)

\* main before AppState::new: no worker, no task.
StartInit ==
    /\ UiInit /\ EventInit /\ FormatInit
    /\ PauseInit /\ ConfigInit /\ ModelInit /\ LaterInit
    /\ main_pc = "start"
    /\ audio_device_restart_needed = FALSE
    /\ transcriber_restart_needed = FALSE
    /\ should_quit = FALSE
    /\ workers = <<>>
    /\ audio_worker = [id |-> 0, handle |-> FALSE]
    /\ tasks = <<>>
    /\ transcription_task = 0
    /\ audio_tx = 1
    /\ result_rx = 1
    /\ restarts = 0
    /\ restart_log = <<>>
    /\ last_io = 0
    /\ enumerated = None
    /\ current_device_index = 0

\* What list_audio_devices returns (audio.rs:10-25): an error, also for
\* an empty list, as None; or the number of devices.
Enumerations == {None} \cup {Some(n) : n \in 1..MaxDevices}

\* resolve_audio_device (state.rs:261-359): the index of the configured
\* device among those found, 0 when it is not among them, and 0 with a
\* warning when the enumeration failed.
resolve_audio_device(devices) ==
    IF devices = None THEN {0} ELSE 0..(devices[1] - 1)

\* AppState::new (main.rs:79, state.rs:46-62)
StartNewState ==
    /\ main_pc = "start"
    /\ \E devices \in Enumerations :
          /\ enumerated' = devices
          /\ current_device_index' \in resolve_audio_device(devices)
    /\ main_pc' = "start_worker"
    /\ last_io' = 0
    /\ UNCHANGED <<audio_device_restart_needed, transcriber_restart_needed, should_quit,
                   workers, audio_worker, tasks, transcription_task, audio_tx, result_rx,
                   restarts, restart_log>>
    /\ UNCHANGED <<uivars, evars, fvars, pvars, cvars, mvars, yvars>>

\* AudioCaptureWorker::spawn(state.current_device_index(), ...)
\* (main.rs:110-115)
StartSpawnWorker ==
    /\ main_pc = "start_worker"
    /\ workers' = <<worker_spawned(audio_tx)>>
    /\ audio_worker' = [id |-> 1, handle |-> TRUE]
    /\ main_pc' = "start_transcriber"
    /\ last_io' = 0
    /\ UNCHANGED <<audio_device_restart_needed, transcriber_restart_needed, should_quit,
                   tasks, transcription_task, audio_tx, result_rx, restarts, restart_log>>
    /\ UNCHANGED <<uivars, evars, fvars, xvars>>

\* create_and_init_transcriber(&state).await? and the spawn of the task
\* (main.rs:118-125): an error returns from main.
StartCreateTranscriber ==
    /\ main_pc = "start_transcriber"
    /\ \E created \in BOOLEAN :
          IF created
          THEN /\ tasks' = <<task_spawned(audio_tx)>>
               /\ transcription_task' = 1
               /\ main_pc' = "select"
          ELSE /\ UNCHANGED <<tasks, transcription_task>>
               /\ main_pc' = "aborted"
    /\ last_io' = 0
    /\ UNCHANGED <<audio_device_restart_needed, transcriber_restart_needed, should_quit,
                   workers, audio_worker, audio_tx, result_rx, restarts, restart_log>>
    /\ UNCHANGED <<uivars, evars, fvars, xvars>>

Next ==
    \/ AddTranscription(EventSpeakers, EventTexts, MaxAppends)
    \/ ScrollUp
    \/ ScrollDown
    \/ FocusLeft
    \/ FocusRight
    \/ Render
    \/ StartEditing
    \/ CancelEditing
    \/ ApplyEdit

Spec == Init /\ [][Next]_vars

\* The widget under a few appends, segment changes, renders and edit
\* sessions with keystrokes.
NextEdit ==
    \/ AddTranscription(EditEventSpeakers, EditEventTexts, MaxEditAppends)
    \/ FocusLeft
    \/ FocusRight
    \/ Render
    \/ StartEditing
    \/ CancelEditing
    \/ ApplyEdit
    \/ HandleCharInput(TypedChars)
    \/ HandleBackspace
    \/ MoveCursorLeft
    \/ MoveCursorRight

SpecEdit == Init /\ [][NextEdit]_vars

\* The orchestrator with its capture workers and transcription tasks.
NextOrch ==
    \/ MainSelect(Wakes, {{"input"}}, MaxRestarts)
    \/ MainCheckDevice
    \/ MainStopWorker
    \/ MainJoinWorker
    \/ MainSpawnWorker
    \/ MainCheckTranscriber
    \/ MainAbortTask
    \/ MainNewChannels
    \/ MainCreateTranscriber
    \/ MainRedraw({MaxViewport})
    \/ MainQuitCheck
    \/ MainDropAudioTx
    \/ MainAwaitTask
    \/ \E w \in DOMAIN workers : WorkerOpen(w)
    \/ \E w \in DOMAIN workers : WorkerExit(w)
    \/ \E t \in DOMAIN tasks : TaskPoll(t)
    \/ \E t \in DOMAIN tasks : TaskYield(t)
    \/ \E t \in DOMAIN tasks : TaskConnect(t)
    \/ \E t \in DOMAIN tasks : TaskConnected(t)
    \/ \E t \in DOMAIN tasks : TaskKeepAlive(t)
    \/ \E t \in DOMAIN tasks : TaskSendAudio(t)
    \/ \E t \in DOMAIN tasks : TaskFinalize(t)
    \/ \E t \in DOMAIN tasks : TaskReceive(t, QuietResponses, 0)

SpecOrch == Init /\ [][NextOrch]_vars

\* What the terminal yields in the runs of SpecLoop.
LoopWakes == {"transcriber"}

\* At a wake of SpecLoop the event stream is ready, or the tick is.
LoopReadies == {{"input"}, {"tick"}}

\* The provider's responses in the runs of SpecLoop: a transcript of one
\* word by speaker 0, and the terminal response.
LoopResponses ==
    {[kind |-> "Transcript",
      alternatives |-> <<Alternative(<<"x">>, <<Word(<<"x">>, Some(0))>>)>>],
     [kind |-> "Terminal", alternatives |-> <<>>]}

\* The main loop with the events of its sessions across restarts of the
\* transcriber.
NextLoop ==
    \/ MainSelect(LoopWakes, LoopReadies, MaxLoopRestarts)
    \/ MainCheckDevice
    \/ MainStopWorker
    \/ MainJoinWorker
    \/ MainSpawnWorker
    \/ MainCheckTranscriber
    \/ MainAbortTask
    \/ MainNewChannels
    \/ MainCreateTranscriber
    \/ MainRedraw({MaxViewport})
    \/ MainQuitCheck
    \/ \E w \in DOMAIN workers : WorkerOpen(w)
    \/ \E w \in DOMAIN workers : WorkerExit(w)
    \/ \E t \in DOMAIN tasks : TaskPoll(t)
    \/ \E t \in DOMAIN tasks : TaskYield(t)
    \/ \E t \in DOMAIN tasks : TaskConnect(t)
    \/ \E t \in DOMAIN tasks : TaskConnected(t)
    \/ \E t \in DOMAIN tasks : TaskFinalize(t)
    \/ \E t \in DOMAIN tasks : TaskReceive(t, LoopResponses, MaxLoopEvents)

SpecLoop == Init /\ [][NextLoop]_vars

\* What the terminal yields in the runs of SpecSelect.
SelectWakes == {"key", "key_ignored", "resize", "other_event"}

\* The event stream and the tick ready or not at a wake, in every way.
SelectReadies == SUBSET {"input", "tick"}

\* The main loop with one session: every source of the select, the
\* responses that carry events, and the redraw.
NextSelect ==
    \/ MainSelect(SelectWakes, SelectReadies, 0)
    \/ MainCheckDevice
    \/ MainCheckTranscriber
    \/ MainRedraw({MaxViewport})
    \/ MainQuitCheck
    \/ \E t \in DOMAIN tasks : TaskPoll(t)
    \/ \E t \in DOMAIN tasks : TaskYield(t)
    \/ \E t \in DOMAIN tasks : TaskConnect(t)
    \/ \E t \in DOMAIN tasks : TaskConnected(t)
    \/ \E t \in DOMAIN tasks : TaskReceive(t, LoopResponses, MaxSelectEvents)

SpecSelect == Init /\ [][NextSelect]_vars

\* What the terminal yields in the runs of SpecShutdown.
ShutdownWakes == {"transcriber", "quit"}

\* The steps of main between two waits and after the loop.
MainStep ==
    \/ MainCheckDevice
    \/ MainStopWorker
    \/ MainJoinWorker
    \/ MainSpawnWorker
    \/ MainCheckTranscriber
    \/ MainAbortTask
    \/ MainNewChannels
    \/ MainCreateTranscriber
    \/ MainRedraw({MaxViewport})
    \/ MainQuitCheck
    \/ MainDropAudioTx
    \/ MainAwaitTask

\* The orchestrator from its start to the end of main.
NextShutdown ==
    \/ MainSelect(ShutdownWakes, {{"input"}}, MaxShutdownRestarts)
    \/ MainStep
    \/ \E w \in DOMAIN workers : WorkerOpen(w)
    \/ \E w \in DOMAIN workers : WorkerExit(w)
    \/ \E t \in DOMAIN tasks : TaskPoll(t)
    \/ \E t \in DOMAIN tasks : TaskYield(t)
    \/ \E t \in DOMAIN tasks : TaskConnect(t)
    \/ \E t \in DOMAIN tasks : TaskConnected(t)
    \/ \E t \in DOMAIN tasks : TaskFinalize(t)
    \/ \E t \in DOMAIN tasks : TaskReceive(t, QuietResponses, 0)

\* The scheduling the shutdown relies on: main runs when it can; a
\* capture thread runs; the runtime polls every task; a connection
\* attempt resolves; and a task whose audio channel is closed gets, among
\* the ready arms of its select, to the one that finds it closed.
FairShutdown ==
    /\ WF_vars(MainStep)
    /\ \A w \in 1..(MaxShutdownRestarts + 1) :
          WF_vars(w \in DOMAIN workers /\ (WorkerOpen(w) \/ WorkerExit(w)))
    /\ \A t \in 1..(MaxShutdownRestarts + 1) :
          /\ WF_vars(t \in DOMAIN tasks /\ TaskPoll(t))
          /\ SF_vars(t \in DOMAIN tasks /\ (TaskConnect(t) \/ TaskConnected(t)))
          /\ SF_vars(t \in DOMAIN tasks /\ TaskFinalize(t))

SpecShutdown == Init /\ [][NextShutdown]_vars /\ FairShutdown

\* The values of options in the runs of SpecSelectField.
OptionValues == {"a", "b"}

\* The select fields of the runs: options of up to MaxOptions values, as
\* the input devices by name (state.rs:280-283, where two devices may
\* have one name) or the fixed lists of the schema; a default among them;
\* and the stored value, absent or one of the options, as load_from_disk
\* and update_select_options leave it.
SelectFields ==
    {SelectField(default, options, stored) :
        default \in OptionValues,
        options \in {o \in SeqsUpTo(OptionValues, MaxOptions) : o # <<>>},
        stored \in {None} \cup {Some(v) : v \in OptionValues}}

ValidSelectFields ==
    {c \in SelectFields :
        /\ c.default \in option_values(c)
        /\ c.stored # None => c.stored[1] \in option_values(c)}

\* The manager holds one of the select fields.
SelectFieldInit ==
    /\ UiInit /\ OrchInit /\ EventInit /\ FormatInit
    /\ StartedInit /\ PauseInit /\ ModelInit /\ LaterInit
    /\ config \in ValidSelectFields
    /\ config_log = <<>>

NextSelectField ==
    \/ SetSelect(OptionValues)
    \/ CycleSelect

SpecSelectField == SelectFieldInit /\ [][NextSelectField]_vars

\* The number fields of the schema, in thousandths: ui.theme.brightness
\* (1.0 in 0.6..1.4, precision 2) and audio.input.normalization_level
\* (-18 in -40..0, precision 0) (config.rs:836-841, 862-868), with
\* nothing stored.
NumberFields ==
    {NumberField(1000, 600, 1400, 2, None),
     NumberField(-18000, -40000, 0, 0, None)}

\* The numbers the calls pass: below, at, inside and above the bounds, on
\* and off the last place kept.
NumberInputs == {-41000, -18000, -17400, 0, 600, 1000, 1005, 1010, 1500}

NumberFieldInit ==
    /\ UiInit /\ OrchInit /\ EventInit /\ FormatInit
    /\ StartedInit /\ PauseInit /\ ModelInit /\ LaterInit
    /\ config \in NumberFields
    /\ config_log = <<>>

NextNumberField == SetNumber(NumberInputs)

SpecNumberField == NumberFieldInit /\ [][NextNumberField]_vars

NextRunLoop ==
    \/ RunTick
    \/ RunAudioArrives
    \/ RunAudioCloses
    \/ RunResponseArrives
    \/ RunKeepAlive
    \/ RunAudio
    \/ RunReceive
    \/ RunAwait

\* The scheduling the run loop relies on: a call it awaits returns, and a
\* select that starts its polling at a random arm takes, of the arms that
\* are ready again and again, each one in the end.
FairRunLoop ==
    /\ WF_vars(RunAwait)
    /\ SF_vars(RunKeepAlive)
    /\ SF_vars(RunAudio)
    /\ SF_vars(RunReceive)

SpecRunLoop == Init /\ [][NextRunLoop]_vars /\ FairRunLoop

\* AudioCaptureWorker under its callers: stop (main.rs:66-71) or restart
\* (main.rs:55-64) is called, limit times at most.
WorkerCall(limit) ==
    /\ main_pc = "select"
    /\ restarts < limit
    /\ restarts' = restarts + 1
    /\ \E call \in {"stop", "restart"} :
          main_pc' = IF call = "stop" THEN "shutdown_stop" ELSE "dev_stop"
    /\ last_io' = 0
    /\ UNCHANGED <<audio_device_restart_needed, transcriber_restart_needed, should_quit,
                   workers, audio_worker, tasks, transcription_task, audio_tx, result_rx,
                   restart_log>>
    /\ UNCHANGED <<uivars, evars, fvars, xvars>>

\* stop has returned to its caller.
WorkerCallReturns ==
    /\ main_pc = "shutdown_drop"
    /\ main_pc' = "select"
    /\ last_io' = 0
    /\ UNCHANGED <<audio_device_restart_needed, transcriber_restart_needed, should_quit,
                   workers, audio_worker, tasks, transcription_task, audio_tx, result_rx,
                   restarts, restart_log>>
    /\ UNCHANGED <<uivars, evars, fvars, xvars>>

\* The quit flag is set (AppState::quit).
WorkerQuit ==
    /\ ~should_quit
    /\ should_quit' = TRUE
    /\ last_io' = 0
    /\ UNCHANGED <<main_pc, audio_device_restart_needed, transcriber_restart_needed,
                   workers, audio_worker, tasks, transcription_task, audio_tx, result_rx,
                   restarts, restart_log>>
    /\ UNCHANGED <<uivars, evars, fvars, xvars>>

\* The steps of stop and of restart.
WorkerCallStep ==
    \/ MainStopWorker
    \/ MainJoinWorker
    \/ MainSpawnWorker
    \/ WorkerCallReturns
    \/ MainCheckTranscriber
    \/ MainRedraw({MaxViewport})
    \/ MainQuitCheck

NextWorker ==
    \/ WorkerCall(MaxWorkerCalls)
    \/ WorkerQuit
    \/ WorkerCallStep
    \/ \E w \in DOMAIN workers : WorkerOpen(w)
    \/ \E w \in DOMAIN workers : WorkerExit(w)

\* The scheduling stop relies on: the caller runs when it can, and every
\* capture thread runs: the attempt to open the device comes to an end and
\* the poll loop wakes from its sleep.
FairWorker ==
    /\ WF_vars(WorkerCallStep)
    /\ \A w \in 1..(MaxWorkerCalls + 2) :
          WF_vars(w \in DOMAIN workers /\ (WorkerOpen(w) \/ WorkerExit(w)))

SpecWorker == Init /\ [][NextWorker]_vars /\ FairWorker

\* What the terminal yields in the runs of SpecTick: a change of the
\* configuration that restarts the transcriber.
TickWakes == {"transcriber"}

\* The main loop with a session that may end on an error and a restart
\* whose session may fail to open; the provider sends no transcript.
NextTick ==
    \/ MainSelect(TickWakes, LoopReadies, MaxTickRestarts)
    \/ MainCheckDevice
    \/ MainStopWorker
    \/ MainJoinWorker
    \/ MainSpawnWorker
    \/ MainCheckTranscriber
    \/ MainAbortTask
    \/ MainNewChannels
    \/ MainCreateTranscriber
    \/ MainRedraw({MaxViewport})
    \/ MainQuitCheck
    \/ \E w \in DOMAIN workers : WorkerOpen(w)
    \/ \E w \in DOMAIN workers : WorkerExit(w)
    \/ \E t \in DOMAIN tasks : TaskPoll(t)
    \/ \E t \in DOMAIN tasks : TaskYield(t)
    \/ \E t \in DOMAIN tasks : TaskConnect(t)
    \/ \E t \in DOMAIN tasks : TaskConnected(t)
    \/ \E t \in DOMAIN tasks : TaskKeepAlive(t)
    \/ \E t \in DOMAIN tasks : TaskReceive(t, QuietResponses, 0)

\* A wake of the select at which the interval has a tick due and the
\* terminal has nothing (main.rs:132-136).
TickWake == MainSelect(TickWakes, {{"tick"}}, MaxTickRestarts)

\* The scheduling the tick relies on: main runs when it can, the capture
\* threads run, and the 100 ms interval comes due again and again at
\* wakes where no input is pending.
FairTick ==
    /\ WF_vars(MainStep)
    /\ WF_vars(TickWake)
    /\ \A w \in 1..(MaxTickRestarts + 1) :
          WF_vars(w \in DOMAIN workers /\ (WorkerOpen(w) \/ WorkerExit(w)))

SpecTick == Init /\ [][NextTick]_vars /\ FairTick

\* The provider's responses in the runs of SpecDeliver: a transcript of
\* two words by two speakers, which makes two events, and the terminal
\* response.
DeliverResponses ==
    {[kind |-> "Transcript",
      alternatives |-> <<Alternative(<<"x", " ", "y">>,
                                     <<Word(<<"x">>, Some(0)), Word(<<"y">>, Some(1))>>)>>],
     [kind |-> "Terminal", alternatives |-> <<>>]}

\* The main loop and its sessions with events that differ, across a
\* restart of the transcriber.
NextDeliver ==
    \/ MainSelect(LoopWakes, LoopReadies, MaxDeliverRestarts)
    \/ MainCheckDevice
    \/ MainStopWorker
    \/ MainJoinWorker
    \/ MainSpawnWorker
    \/ MainCheckTranscriber
    \/ MainAbortTask
    \/ MainNewChannels
    \/ MainCreateTranscriber
    \/ MainRedraw({MaxViewport})
    \/ MainQuitCheck
    \/ \E w \in DOMAIN workers : WorkerOpen(w)
    \/ \E w \in DOMAIN workers : WorkerExit(w)
    \/ \E t \in DOMAIN tasks : TaskPoll(t)
    \/ \E t \in DOMAIN tasks : TaskYield(t)
    \/ \E t \in DOMAIN tasks : TaskConnect(t)
    \/ \E t \in DOMAIN tasks : TaskConnected(t)
    \/ \E t \in DOMAIN tasks : TaskReceive(t, DeliverResponses, MaxDeliverEvents)

SpecDeliver == Init /\ [][NextDeliver]_vars

SpecKeys == Init /\ [][NextKeys]_vars

SpecRecording == Init /\ [][NextRecording]_vars

SpecDevice == Init /\ [][NextDevice]_vars

NextModel == UpdateModel(AppEvents, MaxModelLines)

SpecModel == Init /\ [][NextModel]_vars

\* What the terminal yields in the runs of SpecPause: the pause key,
\* another key, and the quit key.
PauseWakes == {"pause", "key", "quit"}

\* The main loop with the pause key and the capture callbacks, up to the
\* stop of the worker after a quit.
NextPause ==
    \/ MainSelect(PauseWakes, {{"input"}}, 0)
    \/ MainCheckDevice
    \/ MainCheckTranscriber
    \/ MainRedraw({MaxViewport})
    \/ MainQuitCheck
    \/ MainStopWorker
    \/ MainJoinWorker
    \/ \E w \in DOMAIN workers : WorkerOpen(w)
    \/ \E w \in DOMAIN workers : WorkerExit(w)
    \/ \E w \in DOMAIN workers : CallbackBegin(w, MaxAudioLog)
    \/ \E w \in DOMAIN workers : CallbackSend(w)
    \/ \E t \in DOMAIN tasks : TaskPoll(t)
    \/ \E t \in DOMAIN tasks : TaskConnect(t)
    \/ \E t \in DOMAIN tasks : TaskConnected(t)

SpecPause == Init /\ [][NextPause]_vars

\* What the terminal yields in the runs of SpecStartup.
StartupWakes == {"key", "quit"}

\* main from its first line: the start, the loop and the shutdown.
NextStartup ==
    \/ StartNewState
    \/ StartSpawnWorker
    \/ StartCreateTranscriber
    \/ MainSelect(StartupWakes, LoopReadies, 0)
    \/ MainCheckDevice
    \/ MainCheckTranscriber
    \/ MainRedraw({MaxViewport})
    \/ MainQuitCheck
    \/ MainStopWorker
    \/ MainJoinWorker
    \/ MainDropAudioTx
    \/ MainAwaitTask
    \/ \E w \in DOMAIN workers : WorkerOpen(w)
    \/ \E w \in DOMAIN workers : WorkerExit(w)
    \/ \E t \in DOMAIN tasks : TaskPoll(t)
    \/ \E t \in DOMAIN tasks : TaskYield(t)
    \/ \E t \in DOMAIN tasks : TaskConnect(t)
    \/ \E t \in DOMAIN tasks : TaskConnected(t)
    \/ \E t \in DOMAIN tasks : TaskFinalize(t)

SpecStartup == StartInit /\ [][NextStartup]_vars

\* What the terminal yields in the runs of SpecSession.
SessionWakes == {"device", "transcriber"}

\* The main loop with a session that gets audio and events and meets
\* keep-alive, send and receive errors, across a restart of the capture
\* worker or of the transcriber.
NextSession ==
    \/ MainSelect(SessionWakes, LoopReadies, MaxSessionRestarts)
    \/ MainCheckDevice
    \/ MainStopWorker
    \/ MainJoinWorker
    \/ MainSpawnWorker
    \/ MainCheckTranscriber
    \/ MainAbortTask
    \/ MainNewChannels
    \/ MainCreateTranscriber
    \/ MainRedraw({MaxViewport})
    \/ MainQuitCheck
    \/ \E w \in DOMAIN workers : WorkerOpen(w)
    \/ \E w \in DOMAIN workers : WorkerExit(w)
    \/ \E t \in DOMAIN tasks : TaskPoll(t)
    \/ \E t \in DOMAIN tasks : TaskYield(t)
    \/ \E t \in DOMAIN tasks : TaskConnect(t)
    \/ \E t \in DOMAIN tasks : TaskConnected(t)
    \/ \E t \in DOMAIN tasks : TaskKeepAlive(t)
    \/ \E t \in DOMAIN tasks : TaskSendAudio(t)
    \/ \E t \in DOMAIN tasks : TaskFinalize(t)
    \/ \E t \in DOMAIN tasks : TaskReceive(t, LoopResponses, MaxSessionEvents)

SpecSession == Init /\ [][NextSession]_vars

\* The words of the responses in the runs of SpecFormat: a Latin word, a
\* CJK word and a word of a Latin letter and a kana, each by speaker 0, by
\* speaker 1 or without a speaker.
FormatWords ==
    {Word(text, speaker) :
        text \in {<<"x">>, <<"U+4E2D">>, <<"y", "U+3042">>},
        speaker \in {None, Some(0), Some(1)}}

\* The transcript the provider sends with the words: the words with a
\* space between them.
RECURSIVE spaced_transcript(_)
spaced_transcript(words) ==
    IF words = <<>> THEN <<>>
    ELSE IF Len(words) = 1 THEN words[1].word
    ELSE words[1].word \o <<" ">> \o spaced_transcript(Tail(words))

\* The responses in the runs of SpecFormat: a transcript with one
\* alternative for every sequence of words, and the other kinds.
FormatResponses ==
    {[kind |-> "Transcript",
      alternatives |-> <<Alternative(spaced_transcript(words), words)>>] :
        words \in SeqsUpTo(FormatWords, MaxWords)}
    \cup {[kind |-> k, alternatives |-> <<>>] :
            k \in {"SpeechStarted", "UtteranceEnd", "Terminal", "Other"}}

\* A response is handed to format_response (deepgram.rs:195).
FormatResponse(responses) ==
    /\ fr_results = None
    /\ \E r \in responses :
          /\ fr_response' = r
          /\ fr_results' = Some(format_response(r))
    /\ UNCHANGED <<uivars, ovars, evars, xvars>>

NextFormat == FormatResponse(FormatResponses)

SpecFormat == Init /\ [][NextFormat]_vars

\* speaker_id of the transcript events in the runs of SpecRename: no
\* speaker and two diarized speakers.
RenameEventSpeakers == {None, Some(0), Some(1)}

RenameEventTexts == {<<"x">>}

\* Chars typed into a speaker label.
RenameChars == {"x", " "}

\* The widget under appends past its capacity, segment changes and edit
\* sessions that type into a label.
NextRename ==
    \/ AddTranscription(RenameEventSpeakers, RenameEventTexts, MaxRenameAppends)
    \/ FocusLeft
    \/ FocusRight
    \/ StartEditing
    \/ CancelEditing
    \/ ApplyEdit
    \/ HandleCharInput(RenameChars)

SpecRename == Init /\ [][NextRename]_vars

(* ------------------------------------------------------------------ *)
(* Properties of the transcript widget                                  *)
(* ------------------------------------------------------------------ *)

\* The viewport window [N - min(V,N) - S', N - S') with N messages,
\* V = viewport_height and S' = min(scroll_position, N - min(V,N)).
ViewportWindow ==
    LET N == Len(transcriptions)
        V == viewport_height
        S1 == min(scroll_position, N - min(V, N))
    IN  {i \in 0..(N - 1) : N - min(V, N) - S1 <= i /\ i < N - S1}

\* The focused message, when there is one.
FocusedMessage == transcriptions[focus[1].message_index + 1]

\* C1: the buffer never holds more than MAX_TRANSCRIPTIONS messages, and it
\* holds the most recently appended ones in arrival order: with n messages
\* appended so far it holds the arrivals n - len + 1 .. n, where
\* len = min(n, MAX_TRANSCRIPTIONS).
C1_BufferHoldsMostRecent ==
    /\ Len(transcriptions) <= MAX_TRANSCRIPTIONS
    /\ Len(transcriptions) = min(appended, MAX_TRANSCRIPTIONS)
    /\ \A i \in 1..Len(transcriptions) :
          transcriptions[i].uid = appended - Len(transcriptions) + i

\* C1 witness: more than MAX_TRANSCRIPTIONS messages were appended and the
\* oldest two are gone.
C1_Witness ==
    /\ appended = MAX_TRANSCRIPTIONS + 2
    /\ Len(transcriptions) = MAX_TRANSCRIPTIONS
    /\ transcriptions[1].uid = 3

\* C2: focus is None exactly when the buffer is empty, and otherwise its
\* message_index is an index of the buffer.
C2_FocusDefinedIffNonEmpty ==
    /\ (focus = None) <=> (transcriptions = <<>>)
    /\ focus # None =>
          /\ 0 <= focus[1].message_index
          /\ focus[1].message_index < Len(transcriptions)

\* C2 witness: after evictions and navigation focus is on the last row of a
\* full buffer while an edit session is open.
C2_Witness ==
    /\ appended > MAX_TRANSCRIPTIONS
    /\ focus # None
    /\ focus[1].message_index = Len(transcriptions) - 1
    /\ is_editing(W)

\* C3 as claimed: on a non-empty buffer the focused row is in the viewport
\* window.
C3_FocusInWindow_Original ==
    transcriptions # <<>> =>
        /\ focus # None
        /\ focus[1].message_index \in ViewportWindow

\* C3 as amended: on a non-empty buffer whose viewport height has been set
\* (viewport_height >= 1) the focused row is in the viewport window; while
\* viewport_height is 0 nothing has been scrolled.
C3_FocusInWindow ==
    /\ (transcriptions # <<>> /\ viewport_height >= 1) =>
          /\ focus # None
          /\ focus[1].message_index \in ViewportWindow
    /\ viewport_height = 0 => scroll_position = 0

\* C3 witness: after an eviction the window is one row high, scrolled up
\* from the newest row, and holds the focused row.
C3_Witness ==
    /\ appended > MAX_TRANSCRIPTIONS
    /\ viewport_height = 1
    /\ scroll_position = 2
    /\ focus # None
    /\ focus[1].message_index = Len(transcriptions) - 3

\* C4: when the focused segment is Speaker, the focused message has a
\* speaker label.
C4_SpeakerSegmentHasLabel ==
    (focus # None /\ focus[1].segment = "Speaker") =>
        /\ focus[1].message_index < Len(transcriptions)
        /\ FocusedMessage.speaker # None

\* C4 witness: after an eviction focus is on the Speaker segment of a row
\* whose older neighbour has no speaker label.
C4_Witness ==
    /\ appended > MAX_TRANSCRIPTIONS
    /\ focus # None
    /\ focus[1].segment = "Speaker"
    /\ focus[1].message_index >= 1
    /\ transcriptions[focus[1].message_index].speaker = None

\* An append that evicts: the buffer is full and a message arrives.
EvictingAppend ==
    /\ Len(transcriptions) = MAX_TRANSCRIPTIONS
    /\ appended' = appended + 1

\* What C5 says of the focus after an evicting append, apart from the
\* viewport window.
C5_FocusFollows ==
    IF focus[1].message_index >= 1
    THEN /\ focus' # None
         /\ focus'[1].message_index = focus[1].message_index - 1
         /\ transcriptions'[focus'[1].message_index + 1].uid = FocusedMessage.uid
         /\ focus'[1].segment = focus[1].segment
    ELSE /\ focus' # None
         /\ focus'[1].message_index = 0

\* C5 as claimed: an evicting append with focus on index i >= 1 leaves focus
\* on index i - 1, on the same message and segment, inside the viewport
\* window; with focus on index 0 it leaves focus on index 0.
C5_EvictionShiftsFocus_Original ==
    [][EvictingAppend =>
          /\ C5_FocusFollows
          /\ focus[1].message_index >= 1 =>
                focus'[1].message_index \in ViewportWindow']_vars

\* C5 as amended: the same, the message being inside the viewport window
\* when the viewport height has been set (viewport_height >= 1).
C5_EvictionShiftsFocus ==
    [][EvictingAppend =>
          /\ C5_FocusFollows
          /\ (focus[1].message_index >= 1 /\ viewport_height >= 1) =>
                focus'[1].message_index \in ViewportWindow']_vars

\* C5 witness: capacity MAX with focus on the second newest message when
\* the next message arrives; afterwards the buffer starts at the second
\* arrival and focus is one index lower, on the same message.
C5_Witness ==
    /\ appended = MAX_TRANSCRIPTIONS + 1
    /\ viewport_height >= 1
    /\ transcriptions[1].uid = 2
    /\ focus # None
    /\ focus[1].message_index = MAX_TRANSCRIPTIONS - 3 + 1
    /\ FocusedMessage.uid = MAX_TRANSCRIPTIONS

\* The message start_editing took is still buffered, at 1-based position j.
TargetAt(j) ==
    /\ j \in 1..Len(transcriptions)
    /\ transcriptions[j].uid = edit_target

\* C6: apply_edit changes no message but the one start_editing took, m,
\* whatever was evicted in between: a message that differs after the edit
\* session ends is m, or (a speaker rename) shares a speaker_id with m.
C6_ApplyEditModifiesOnlyTarget ==
    [][(is_editing(W) /\ edit_mode'.kind = "None") =>
          \A i \in 1..Len(transcriptions) :
             transcriptions'[i] # transcriptions[i] =>
                \/ TargetAt(i)
                \/ /\ edit_mode.kind = "EditingSpeaker"
                   /\ \E j \in 1..Len(transcriptions) :
                         /\ TargetAt(j)
                         /\ transcriptions[j].speaker_id # None
                         /\ transcriptions[j].speaker_id = transcriptions[i].speaker_id]_vars

\* C7: the cursor of an edit session is within the buffer and on a char
\* boundary, and no insert or remove was attempted off a char boundary
\* (String::insert and String::remove panic there).
C7_CursorOnCharBoundary ==
    /\ is_editing(W) =>
          /\ 0 <= edit_mode.cursor
          /\ edit_mode.cursor <= byte_len(edit_mode.buffer)
          /\ is_char_boundary(edit_mode.buffer, edit_mode.cursor)
    /\ ~panicked

(* ------------------------------------------------------------------ *)
(* Properties of the orchestrator                                       *)
(* ------------------------------------------------------------------ *)

AliveWorkers == {w \in DOMAIN workers : worker_alive(w)}

\* C8: at every instant at most one capture worker thread is alive, no two
\* alive workers hold a sender to the same audio channel, and whenever main
\* is about to spawn a replacement the outgoing worker has its stop flag
\* set and has returned.
C8_AtMostOneWorkerAlive ==
    /\ Cardinality(AliveWorkers) <= 1
    /\ \A w1 \in AliveWorkers : \A w2 \in AliveWorkers :
          w1 # w2 => workers[w1].tx # workers[w2].tx
    /\ main_pc \in {"dev_spawn", "tr_spawn"} =>
          /\ AliveWorkers = {}
          /\ workers[audio_worker.id].stop

\* A configuration-change restart followed by a device-change restart:
\* the third worker captures on the channel the second one had.
C8_Witness ==
    /\ Len(workers) = 3
    /\ workers[3].state = "capturing"
    /\ workers[2].tx # workers[1].tx
    /\ workers[3].tx = workers[2].tx

\* C9: no two transcription sessions are live at once: while a later
\* task's provider stream is open, no earlier task has its stream open or
\* performs a keep-alive, a send or a receive.
C9_OldSessionStoppedBeforeNewOpens ==
    \A t \in DOMAIN tasks : \A u \in DOMAIN tasks :
        (t < u /\ tasks[u].stream = "open") =>
            /\ tasks[t].stream # "open"
            /\ last_io # t

RestartSteps == <<"abort", "channels", "restart_worker", "open_session">>

IsPrefix(a, b) == Len(a) <= Len(b) /\ a = SubSeq(b, 1, Len(a))

\* Main is back at its wait after an iteration that processed a
\* configuration change.
RestartProcessed == main_pc = "select" /\ restart_log # <<>>

\* C10 as stated: when main waits again after processing a configuration
\* change, it has aborted the old task, created the channels, restarted the
\* worker and started the new session's run loop, in this order, each once.
C10_RestartStepsInOrder_Original ==
    RestartProcessed => restart_log = RestartSteps

\* C10: the steps taken so far are always an initial part of abort,
\* channels, worker restart, session start; when main waits again the
\* first three have been taken, the old task is aborted, the worker is on
\* the new audio channel, and the fourth has been taken exactly when the
\* transcriber could be created, the new task then running on the new
\* channels.
C10_RestartStepsInOrder ==
    /\ IsPrefix(restart_log, RestartSteps)
    /\ RestartProcessed =>
          /\ Len(restart_log) >= 3
          /\ audio_tx = result_rx
          /\ workers[audio_worker.id].tx = audio_tx
          /\ \A t \in DOMAIN tasks :
                tasks[t].audio_ch # audio_tx => (tasks[t].abort \/ tasks[t].pc = "ended")
          /\ Len(restart_log) = 4 =>
                /\ tasks[transcription_task].audio_ch = audio_tx
                /\ tasks[transcription_task].result_ch = result_rx
                /\ ~tasks[transcription_task].abort
          /\ Len(restart_log) = 3 =>
                tasks[transcription_task].audio_ch # audio_tx

\* A processed configuration change whose transcriber was created.
C10_Witness ==
    /\ RestartProcessed
    /\ restart_log = RestartSteps
    /\ tasks[transcription_task].audio_ch = audio_tx

\* A step of main inside the restart of the capture worker for a device
\* change (main.rs:185-192).
DeviceRestartStep ==
    /\ main_pc \in {"dev_stop", "dev_join", "dev_spawn"}
    /\ main_pc' # main_pc

\* C11: processing a device change restarts only the capture worker: the
\* steps of main leave the session task, the audio and event channels in
\* use, the transcript buffer and the speaker map as they were, and the
\* replacement worker sends on the audio channel main holds, which is the
\* one the outgoing worker had, so a session reading that channel keeps
\* reading the new worker's chunks.
C11_DeviceChangeRestartsOnlyWorker ==
    [][DeviceRestartStep =>
          /\ UNCHANGED <<tasks, transcription_task, audio_tx, result_rx,
                         result_queue, transcriptions, speaker_map>>
          /\ main_pc = "dev_spawn" =>
                /\ audio_worker'.id # audio_worker.id
                /\ workers'[audio_worker'.id].tx = audio_tx
                /\ workers'[audio_worker'.id].tx = workers[audio_worker.id].tx
                /\ \A w \in DOMAIN workers : workers'[w] = workers[w]
                /\ tasks[transcription_task].audio_ch = workers[audio_worker.id].tx =>
                      tasks'[transcription_task'].audio_ch = workers'[audio_worker'.id].tx]_vars

\* The first session, its stream open, reads the channel on which the
\* worker spawned by a device change captures.
C11_Witness ==
    /\ Len(workers) = 2
    /\ workers[2].state = "capturing"
    /\ ~worker_alive(1)
    /\ transcription_task = 1
    /\ tasks[1].pc = "loop"
    /\ tasks[1].stream = "open"
    /\ tasks[1].audio_ch = workers[2].tx
    /\ ~audio_channel_closed(tasks[1].audio_ch)

(* ------------------------------------------------------------------ *)
(* Properties of the main loop and its events                           *)
(* ------------------------------------------------------------------ *)

\* C12: once a configuration change has been processed the old session's
\* events are never appended: every appended event came from the task main
\* holds, which sends on the event channel main receives from and has not
\* been aborted, and so did every event still queued, except between the
\* abort and the replacement of the channels, when what the aborted task
\* has queued is about to be dropped.
C12_OldSessionEventsDiscarded ==
    /\ \A t \in wake.from :
          /\ t = transcription_task
          /\ tasks[t].result_ch = result_rx
          /\ ~tasks[t].abort
    /\ main_pc # "tr_channels" =>
          \A i \in DOMAIN result_queue :
              /\ result_queue[i].from = transcription_task
              /\ ~tasks[result_queue[i].from].abort

\* An event of the second session is appended while the first, aborted,
\* still has its provider stream open.
C12_Witness ==
    /\ wake.from = {2}
    /\ tasks[1].abort
    /\ tasks[1].pc = "loop"
    /\ tasks[1].stream = "open"
    /\ \E i \in DOMAIN transcriptions : transcriptions[i].uid = appended

\* A step of main through the transcript branch of the select.
TranscriptBranch ==
    /\ main_pc = "select"
    /\ main_pc' # main_pc
    /\ wake'.source = "events"

NotSentinel(e) == e.result.transcript # STREAM_ENDED

\* The k-th newest message of the buffer after the step is the message
\* main builds for event e.
AppendedAs(e, k) ==
    LET m == transcriptions'[Len(transcriptions') - k]
    IN  /\ m.content = e.result.transcript
        /\ m.speaker_id = e.result.speaker_id

\* C13: a run of the transcript branch takes every event queued on the
\* event channel, a sentinel first or not: the queue is empty after it and
\* the events other than sentinels are appended in their order.
C13_BranchDrainsQueue ==
    [][TranscriptBranch =>
          LET evs == SelectSeq(result_queue, NotSentinel)
              n == Len(evs)
          IN  /\ result_queue' = <<>>
              /\ appended' = appended + n
              /\ Len(wake'.taken) = Len(result_queue)
              /\ \A i \in 1..n :
                    n - i < Len(transcriptions') /\ AppendedAs(evs[i], n - i)]_vars

\* The branch found the sentinel first and a transcript behind it.
C13_Witness ==
    /\ wake.source = "events"
    /\ wake.taken = <<"Terminal", "Transcript">>
    /\ result_queue = <<>>
    /\ appended = 1
    /\ Len(transcriptions) = 1

\* C14: the event queued for a terminal response is the sentinel, and the
\* transcript branch appends no message for it: it appends as many
\* messages as it takes events of other responses, none with the
\* sentinel's text.
C14_SentinelNeverAppended ==
    /\ [](\A i \in DOMAIN result_queue :
             result_queue[i].of = "Terminal" =>
                 result_queue[i].result = TranscriptionResult(STREAM_ENDED, None))
    /\ [](\A i \in DOMAIN transcriptions : transcriptions[i].content # STREAM_ENDED)
    /\ [][TranscriptBranch =>
             appended' - appended =
                 Cardinality({i \in DOMAIN result_queue : result_queue[i].of # "Terminal"})]_vars

\* The branch took a transcript and the sentinel behind it, and one message
\* is in the buffer.
C14_Witness ==
    /\ wake.source = "events"
    /\ wake.taken = <<"Transcript", "Terminal">>
    /\ appended = 1
    /\ transcriptions[1].content = <<"x">>

\* The sources with something pending at the last wake: user input, a
\* queued transcript event, the tick.
Pending ==
    (wake.ready \cap {"input", "tick"}) \cup (IF wake.queued THEN {"events"} ELSE {})

\* C15: a wake services the highest-priority source with something
\* pending: user input if there is any, else the queued transcript events
\* if there are any, else the tick.
C15_HighestPriorityServiced ==
    wake.source # "none" =>
        /\ "input" \in Pending => wake.source = "input"
        /\ ("input" \notin Pending /\ "events" \in Pending) => wake.source = "events"
        /\ Pending = {"tick"} => wake.source = "tick"

\* A step of main at the redraw (main.rs:230-233).
RedrawStep == main_pc = "redraw" /\ main_pc' # main_pc

\* A step of main through the select that gives cause to draw: a handled
\* key, a resize, an appended transcript or a tick.
CauseToDraw ==
    /\ main_pc = "select" /\ main_pc' # main_pc
    /\ \/ wake'.source = "input" /\ wake'.kind \in {"key", "resize"}
       \/ wake'.source = "events" /\ appended' > appended
       \/ wake'.source = "tick"

\* C16: an iteration draws a frame exactly when the dirty flag is set as
\* it reaches the redraw; the flag goes up only in a wake that handled a
\* key, saw a resize, appended a transcript or serviced the tick, and it
\* goes down only by the draw.
C16_DrawIffDirty ==
    [][/\ RedrawStep => (wake'.drew = needs_redraw /\ ~needs_redraw')
       /\ (~needs_redraw /\ needs_redraw') => CauseToDraw
       /\ (needs_redraw /\ ~needs_redraw') => (RedrawStep /\ wake'.drew)
       /\ (~wake.drew /\ wake'.drew) => RedrawStep]_vars

\* An iteration whose wake was a key the handler did not handle passed
\* the redraw without drawing.
C16_Witness ==
    /\ main_pc = "quit_check"
    /\ wake.kind = "key_ignored"
    /\ ~wake.drew
    /\ ~needs_redraw

\* Main has returned, no capture thread is alive and no task is left.
ShutDown ==
    /\ main_pc = "done"
    /\ AliveWorkers = {}
    /\ \A t \in DOMAIN tasks : tasks[t].pc = "ended"

ResponseWords == fr_response.alternatives[1].words

Formatted == fr_results # None /\ fr_response.kind = "Transcript"

\* What goes between two adjacent words of an event: nothing when both
\* are CJK, else one space.
Separator(a, b) == IF is_cjk(a.word) /\ is_cjk(b.word) THEN <<>> ELSE <<" ">>

\* The words joined in order.
RECURSIVE Joined(_)
Joined(words) ==
    IF words = <<>> THEN <<>>
    ELSE IF Len(words) = 1 THEN words[1].word
    ELSE words[1].word \o Separator(words[1], words[2]) \o Joined(Tail(words))

\* The end of the maximal run of words with one speaker that starts at i.
RECURSIVE RunEnd(_, _)
RunEnd(words, i) ==
    IF i < Len(words) /\ words[i + 1].speaker = words[i].speaker
    THEN RunEnd(words, i + 1)
    ELSE i

\* One event for every maximal run from word i on, in order.
RECURSIVE RunEvents(_, _)
RunEvents(words, i) ==
    IF i > Len(words)
    THEN <<>>
    ELSE LET j == RunEnd(words, i)
         IN  <<TranscriptionResult(Joined(SubSeq(words, i, j)), words[i].speaker)>>
                 \o RunEvents(words, j + 1)

\* C18: format_response emits one event for every maximal run of
\* consecutive words with the same speaker, in order, tagged with the
\* run's speaker and holding the run's words joined in order, so that
\* every word is in exactly one event.
C18_OneEventPerSpeakerRun ==
    Formatted => fr_results[1] = RunEvents(ResponseWords, 1)

\* C19: in an event that format_response builds from words, adjacent words
\* are separated by exactly one space unless both are CJK, and then by
\* nothing: the text of the event is a stretch of the response's words
\* joined by that rule, and it is all the words when they have one and the
\* same speaker.
C19_SpaceUnlessBothCjk ==
    Formatted =>
        LET words == ResponseWords
            events == fr_results[1]
        IN  /\ \A k \in DOMAIN events :
                  events[k].speaker_id # None =>
                      \E i \in 1..Len(words) : \E j \in i..Len(words) :
                          events[k].transcript = Joined(SubSeq(words, i, j))
            /\ (words # <<>> /\ words[1].speaker # None
                  /\ \A i \in DOMAIN words : words[i].speaker = words[1].speaker) =>
                  events = <<TranscriptionResult(Joined(words), words[1].speaker)>>

\* Two CJK words and a Latin word by one speaker: no space inside the CJK
\* pair, one space before the Latin word.
C19_Witness ==
    /\ Formatted
    /\ ResponseWords = <<Word(<<"U+4E2D">>, Some(0)), Word(<<"U+4E2D">>, Some(0)),
                         Word(<<"x">>, Some(0))>>
    /\ fr_results[1] =
          <<TranscriptionResult(<<"U+4E2D", "U+4E2D", " ", "x">>, Some(0))>>

(* ------------------------------------------------------------------ *)
(* Properties of speaker renames                                        *)
(* ------------------------------------------------------------------ *)

\* The message the edit session's index denotes when apply_edit runs.
RenameTarget == transcriptions[edit_mode.message_index + 1]

\* The name apply_edit sets: the edit buffer without the white space
\* around it.
NewName == trim(edit_mode.buffer)

\* apply_edit on a Speaker segment with a non-empty new name.
RenameStep ==
    /\ ApplyEdit
    /\ edit_mode.kind = "EditingSpeaker"
    /\ InRange(W, edit_mode.message_index)
    /\ NewName # <<>>

Relabelled(message, name) == [message EXCEPT !.speaker = Some(name)]

\* C20: apply_edit on a Speaker segment with a non-empty new name, the
\* target being the message the session's index denotes at that moment.
\* If the target has a speaker_id, every buffered message with that id gets
\* the new name as its label and nothing else of it changes, the messages
\* with another id or none are unchanged, and the speaker map holds the new
\* name for the id; if the target has no speaker_id, only the target's
\* label changes and the map is unchanged. A name in the map stays until
\* the next rename of its id, and every event appended with an id that has
\* a name in the map is labelled with that name: so every event with the
\* renamed id appended afterwards carries the new name.
C20_RenamePropagates ==
    [][/\ RenameStep =>
             /\ Len(transcriptions') = Len(transcriptions)
             /\ \A i \in 1..Len(transcriptions) :
                   transcriptions'[i] =
                      IF RenameTarget.speaker_id # None
                      THEN IF transcriptions[i].speaker_id = RenameTarget.speaker_id
                           THEN Relabelled(transcriptions[i], NewName)
                           ELSE transcriptions[i]
                      ELSE IF i = edit_mode.message_index + 1
                           THEN Relabelled(transcriptions[i], NewName)
                           ELSE transcriptions[i]
             /\ IF RenameTarget.speaker_id # None
                THEN /\ RenameTarget.speaker_id[1] \in DOMAIN speaker_map'
                     /\ speaker_map'[RenameTarget.speaker_id[1]] = NewName
                ELSE speaker_map' = speaker_map
       /\ \A id \in DOMAIN speaker_map :
             ~(RenameStep /\ RenameTarget.speaker_id = Some(id)) =>
                 /\ id \in DOMAIN speaker_map'
                 /\ speaker_map'[id] = speaker_map[id]
       /\ appended' = appended + 1 =>
             LET message == transcriptions'[Len(transcriptions')]
             IN  (message.speaker_id # None
                     /\ message.speaker_id[1] \in DOMAIN speaker_map) =>
                     message.speaker = Some(speaker_map[message.speaker_id[1]])
      ]_vars

\* Speaker 0 has been renamed with a name that is not its default one: the
\* two buffered messages of speaker 0 carry the new name, the later of them
\* being the last event appended, and the message of speaker 1 between
\* them still has its default label.
C20_Witness ==
    /\ edit_mode.kind = "None"
    /\ 0 \in DOMAIN speaker_map
    /\ speaker_map[0] # DefaultSpeakerName(0)
    /\ Len(transcriptions) = 3
    /\ transcriptions[1].speaker_id = Some(0)
    /\ transcriptions[1].speaker = Some(speaker_map[0])
    /\ transcriptions[2].speaker_id = Some(1)
    /\ transcriptions[2].speaker = Some(DefaultSpeakerName(1))
    /\ transcriptions[3].speaker_id = Some(0)
    /\ transcriptions[3].speaker = Some(speaker_map[0])
    /\ transcriptions[3].uid = appended

(* ------------------------------------------------------------------ *)
(* Properties of the buffer across sessions                             *)
(* ------------------------------------------------------------------ *)

\* A session task ends: by the error of a keep-alive, a send or a
\* receive, by the end of its stream or a failed connection, or
\* cancelled.
SessionEnds ==
    \E t \in DOMAIN tasks : tasks[t].pc # "ended" /\ tasks'[t].pc = "ended"

\* A step of main inside the restart of the capture worker or of the
\* transcriber (main.rs:185-228).
RestartStep ==
    /\ main_pc \in {"check_device", "dev_stop", "dev_join", "dev_spawn",
                     "check_transcriber", "tr_abort", "tr_channels", "tr_stop",
                     "tr_join", "tr_spawn", "tr_create"}
    /\ main_pc' # main_pc

\* C21: connection trouble and reconfiguration lose no buffered message:
\* a step in which a session task ends (keep-alive, send or receive error
\* among the causes) and every step of a device-change or
\* configuration-change restart leave the transcript buffer, that is the
\* messages, their order, labels and content, as it was, and so does every
\* step of a capture worker or of a task.
C21_BufferKeptAcrossSessions ==
    [][(SessionEnds \/ RestartStep \/ main_pc' = main_pc) =>
          transcriptions' = transcriptions]_vars

\* A message is buffered, the session it came from has ended with an
\* error in its loop, not cancelled, and a transcriber restart has put a
\* second session on new channels.
C21_Witness ==
    /\ Len(transcriptions) = 1
    /\ transcriptions[1].uid = 1
    /\ tasks[1].pc = "ended"
    /\ tasks[1].stream = "closed"
    /\ ~tasks[1].abort
    /\ Len(tasks) = 2
    /\ tasks[2].pc = "loop"
    /\ result_rx = 2

(* ------------------------------------------------------------------ *)
(* Properties of the start                                              *)
(* ------------------------------------------------------------------ *)

\* C22: when the enumeration of input devices at startup fails or finds
\* none, the program aborts before the main loop: main never gets to its
\* select, no iteration of the loop runs, and once main has returned no
\* capture worker is alive.
C22_NoLoopWithoutDevices ==
    (main_pc # "start" /\ enumerated = None) =>
        /\ main_pc \in {"start_worker", "start_transcriber", "aborted"}
        /\ wake.source = "none"
        /\ main_pc = "aborted" => AliveWorkers = {}

(* ------------------------------------------------------------------ *)
(* Properties of pause and resume                                       *)
(* ------------------------------------------------------------------ *)

\* Whether recording is paused after the first n entries of the log.
RECURSIVE PausedAfter(_, _)
PausedAfter(log, n) ==
    IF n = 0
    THEN FALSE
    ELSE CASE log[n].kind = "pause" -> TRUE
           [] log[n].kind = "resume" -> FALSE
           [] OTHER -> PausedAfter(log, n - 1)

\* The worker main started with is the one it holds, never told to stop
\* and never joined.
SameWorker ==
    /\ Len(workers) = 1
    /\ ~workers[1].stop
    /\ audio_worker = [id |-> 1, handle |-> TRUE]

\* C23 as stated: no chunk is enqueued while the pause flag is set, and
\* pausing and resuming never stop, join or respawn the capture worker.
C23_NoChunkWhilePaused_Original ==
    /\ \A i \in DOMAIN audio_log :
          audio_log[i].kind = "chunk" => ~PausedAfter(audio_log, i - 1)
    /\ ~should_quit => SameWorker

\* C23: a callback that finds the pause flag set enqueues nothing: every
\* chunk enqueued comes from a callback that loaded the flag while it was
\* clear, so that while the flag is set each worker enqueues at most the
\* one chunk of the callback that was past its check when the flag was
\* set; pausing and resuming any number of times never stop, join or
\* respawn the capture worker; and a chunk enqueued after a resume is
\* possible (the witness).
C23_NoChunkFromPausedCallback ==
    /\ \A i \in DOMAIN audio_log :
          audio_log[i].kind = "chunk" =>
              /\ ~PausedAfter(audio_log, audio_log[i].began)
              /\ \A j \in (audio_log[i].began + 1)..(i - 1) :
                    ~(audio_log[j].kind = "chunk" /\ audio_log[j].worker = audio_log[i].worker)
    /\ \A c \in callbacks : c.pc = "sending" => ~PausedAfter(audio_log, c.began)
    /\ ~should_quit => SameWorker

\* A chunk, a pause, a resume and a chunk again, all with the worker main
\* started with capturing.
C23_Witness ==
    /\ Len(audio_log) = 4
    /\ audio_log[1].kind = "chunk"
    /\ audio_log[2].kind = "pause"
    /\ audio_log[3].kind = "resume"
    /\ audio_log[4].kind = "chunk"
    /\ audio_log[4].began = 3
    /\ workers[1].state = "capturing"
    /\ SameWorker

(* ------------------------------------------------------------------ *)
(* Properties of the configuration manager                              *)
(* ------------------------------------------------------------------ *)

\* The calls so far are n calls of cycle_select(key, +1) followed by n
\* calls of cycle_select(key, -1).
ForwardThenBack(n) ==
    /\ Len(config_log) = 2 * n
    /\ \A i \in 1..(2 * n) :
          /\ config_log[i].op = "cycle_select"
          /\ config_log[i].arg = IF i <= n THEN 1 ELSE -1

\* The calls that changed the value of the field.
ChangingCalls ==
    {i \in DOMAIN config_log :
        field_value(config_log[i].after) # field_value(config_log[i].before)}

\* C24: on a select field, N calls of cycle_select(key, +1) followed by N
\* calls of cycle_select(key, -1) bring back the value the field had, for
\* every N; and over any calls of set_select and cycle_select the file is
\* written as many times as calls changed the value, a call that changes
\* nothing returning false.
C24_CycleRoundTripAndWrites ==
    /\ \A n \in 1..MaxConfigCalls :
          ForwardThenBack(n) =>
              select_value(config) = select_value(config_log[1].before)
    /\ config.writes = Cardinality(ChangingCalls)
    /\ \A i \in DOMAIN config_log :
          (config_log[i].ret = "true") <=> (i \in ChangingCalls)

\* The value the field holds is already clamped and rounded, and the call
\* passes it.
SetToHeld(call) ==
    /\ call.op = "set_number"
    /\ call.arg = number_value(call.before)
    /\ call.arg = round_to_precision(clamp_number(call.before, call.arg),
                                      call.before.precision)

\* C25: set_number with the value the field already holds, that value
\* being clamped to [min, max] and rounded to the precision, returns
\* false, leaves what is stored as it was and writes nothing.
C25_SetNumberToHeldIsNoOp ==
    \A i \in DOMAIN config_log :
        SetToHeld(config_log[i]) =>
            /\ config_log[i].ret = "false"
            /\ config_log[i].after = config_log[i].before

\* The brightness field was set off its default, to a value rounded from
\* the one passed, and then set to the value it holds: the second call
\* returned false and one write was made in all.
C25_Witness ==
    /\ Len(config_log) = 2
    /\ config_log[1].arg = 1005
    /\ config_log[1].ret = "true"
    /\ config_log[2].arg = 1010
    /\ SetToHeld(config_log[2])
    /\ config_log[2].ret = "false"
    /\ config.stored = Some(1010)
    /\ config.writes = 1

(* ------------------------------------------------------------------ *)
(* Properties of the AppModel                                           *)
(* ------------------------------------------------------------------ *)

\* The chain of states, each with the event that leaves it.
ModelChain ==
    {<<"SelectingDevice", "Confirm", "ReadyToRecord">>,
     <<"ReadyToRecord", "StartRecording", "Recording">>,
     <<"Recording", "RecordingFinished", "Transcribing">>,
     <<"Transcribing", "TranscriptionFinished", "Done">>}

\* C26: update_model changes the state only along SelectingDevice
\* --Confirm--> ReadyToRecord --StartRecording--> Recording
\* --RecordingFinished--> Transcribing --TranscriptionFinished--> Done: the
\* event of a link moves the model from the state of the link to the next,
\* every other event and the event of a link received in another state
\* leave the state as it was, and a transcript line is added only by a
\* transcription received while the state is Recording or Transcribing.
C26_StateChain ==
    [][model_event' # model_event \/ model' # model =>
          LET event == model_event'[1]
              link == <<model.state, event.kind, model'.state>>
          IN  /\ model'.state # model.state => link \in ModelChain
              /\ (\E l \in ModelChain : l[1] = model.state /\ l[2] = event.kind) =>
                    link \in ModelChain
              /\ Len(model'.transcript_lines) > Len(model.transcript_lines) =>
                    /\ model.state \in {"Recording", "Transcribing"}
                    /\ model'.state = model.state
                    /\ event.kind = "TranscriptionReceived"
                    /\ model'.transcript_lines = Append(model.transcript_lines, event.text)]_vars

\* The model has gone down the whole chain with a line received while
\* recording and one while transcribing.
C26_Witness ==
    /\ model.state = "Done"
    /\ model.transcript_lines = <<"x", "x">>
    /\ model_event = Some(AppEvent("TranscriptionFinished", ""))

(* ------------------------------------------------------------------ *)
(* Focus moves of the transcript widget                                 *)
(* ------------------------------------------------------------------ *)

\* The row has a speaker label.
RowHasSpeaker(index) == transcriptions[index + 1].speaker # None

\* C27: on a non-empty buffer scroll_up moves focus.message_index one row
\* toward the oldest row and scroll_down one row toward the newest, or
\* leave it where it is on the first/last row; the segment is kept when
\* the destination row has a speaker label and is Message otherwise; the
\* messages are unchanged.
C27_RowMovesByOne ==
    [][(transcriptions # <<>> /\ (ScrollUp \/ ScrollDown)) =>
          /\ focus # None /\ focus' # None
          /\ LET old == focus[1].message_index
                 new == focus'[1].message_index
                 last_index == Len(transcriptions) - 1
             IN  /\ ScrollUp => new = IF old = 0 THEN 0 ELSE old - 1
                 /\ ScrollDown => new = IF old = last_index THEN last_index ELSE old + 1
                 /\ focus'[1].segment =
                       IF RowHasSpeaker(new) THEN focus[1].segment ELSE "Message"
          /\ transcriptions' = transcriptions]_vars

\* C27 witness: with three rows appended and none evicted, focus has gone
\* from the first row to the second and is still on the Speaker segment.
C27_Witness ==
    /\ appended = 3
    /\ Len(transcriptions) = 3
    /\ focus = Some(FocusLocation(1, "Speaker"))
    /\ RowHasSpeaker(0)
    /\ ~RowHasSpeaker(2)

\* C28: focus_left and focus_right change neither focus.message_index nor
\* any message; focus_right leaves the segment Message; focus_left leaves
\* it Speaker when the focused row has a speaker label and changes nothing
\* of the widget when it has none.
C28_SegmentMoves ==
    [][(FocusLeft \/ FocusRight) =>
          /\ transcriptions' = transcriptions
          /\ (focus = None) = (focus' = None)
          /\ focus # None =>
                /\ focus'[1].message_index = focus[1].message_index
                /\ FocusRight => focus'[1].segment = "Message"
                /\ (FocusLeft /\ RowHasSpeaker(focus[1].message_index)) =>
                      focus'[1].segment = "Speaker"
                /\ (FocusLeft /\ ~RowHasSpeaker(focus[1].message_index)) =>
                      UNCHANGED wvars]_vars

\* C28 witness: the only row of the buffer is focused on its Speaker
\* segment, where only focus_left can have taken it.
C28_Witness ==
    /\ appended = 1
    /\ focus = Some(FocusLocation(0, "Speaker"))
    /\ RowHasSpeaker(0)

(* ------------------------------------------------------------------ *)
(* The scroll correction                                                *)
(* ------------------------------------------------------------------ *)

\* scroll_position as the step hands it to ensure_focus_visible: an
\* evicting append has clamped it against the buffer without its front
\* (transcriptions.rs:82-86), every other step hands it on as it was.
PreScroll ==
    IF appended' # appended /\ Len(transcriptions) >= MAX_TRANSCRIPTIONS
    THEN clamp_scroll([W EXCEPT !.transcriptions = pop_front(@)]).scroll_position
    ELSE scroll_position

\* The step ends with the focused row where the nearest-edge correction
\* puts it: with N rows, V the viewport height and S the handed-on
\* scroll_position clamped to N - min(V,N), a focused row above the
\* window [N - min(V,N) - S, N - S) is the first visible row afterwards, one
\* below it the last visible row, and one inside it leaves S in place.
NearestEdge ==
    LET N == Len(transcriptions')
        visible == min(viewport_height', N)
        S == min(PreScroll, N - visible)
        index == focus'[1].message_index
    IN  /\ focus' # None
        /\ index < N - visible - S => N - visible - scroll_position' = index
        /\ index >= N - S => N - scroll_position' - 1 = index
        /\ (N - visible - S <= index /\ index < N - S) => scroll_position' = S

FocusedText ==
    IF focus[1].segment = "Speaker" THEN FocusedMessage.speaker[1] ELSE FocusedMessage.content

\* C30: start_editing without an active session opens one on the focused
\* message and segment, its buffer the text of that segment and its cursor
\* the end of the buffer; on an empty buffer it opens none; with a session
\* active it changes nothing, so the one session stays as it is.
C30_StartEditingSnapshots ==
    [][/\ (StartEditing /\ transcriptions # <<>>) =>
             /\ focus # None
             /\ edit_mode'.kind =
                   IF focus[1].segment = "Speaker" THEN "EditingSpeaker" ELSE "EditingMessage"
             /\ edit_mode'.message_index = focus[1].message_index
             /\ edit_mode'.buffer = FocusedText
             /\ edit_mode'.cursor = byte_len(edit_mode'.buffer)
             /\ UNCHANGED <<transcriptions, focus, scroll_position, viewport_height>>
       /\ (StartEditing /\ transcriptions = <<>>) => UNCHANGED wvars
       /\ is_editing(W) => start_editing(W) = W]_vars

\* C30 witness: a session on a message of one two-byte character, opened
\* and not yet typed into: the cursor is 2, the end of the buffer.
C30_Witness ==
    /\ edit_mode.kind = "EditingMessage"
    /\ edit_mode.buffer = <<"U+00E9">>
    /\ edit_mode.cursor = 2
    /\ keys_used = 0
    /\ FocusedMessage.content = edit_mode.buffer

(* ------------------------------------------------------------------ *)
(* Ending an edit session                                               *)
(* ------------------------------------------------------------------ *)

\* C31: cancel_editing ends the session and leaves the messages, the
\* speaker map, focus and scroll position as they were, whatever was typed
\* or removed and wherever the cursor went; apply_edit of a message edit
\* ends the session, puts the buffer into the content of the row the
\* session is on and leaves every other row, every label and the speaker
\* map as they were.
C31_EndOfSessionFrame ==
    [][/\ CancelEditing =>
             /\ edit_mode' = EditNone
             /\ UNCHANGED <<transcriptions, speaker_map, focus, scroll_position>>
       /\ (ApplyEdit /\ edit_mode.kind = "EditingMessage") =>
             /\ edit_mode' = EditNone
             /\ speaker_map' = speaker_map
             /\ edit_mode.message_index < Len(transcriptions)
             /\ Len(transcriptions') = Len(transcriptions)
             /\ \A i \in 1..Len(transcriptions) :
                   transcriptions'[i] =
                      IF i = edit_mode.message_index + 1
                      THEN [transcriptions[i] EXCEPT !.content = edit_mode.buffer]
                      ELSE transcriptions[i]]_vars

\* C31 witness: two rows, no session, and the first row holds what was
\* typed after its text: only apply_edit of a message edit writes it.
C31_Witness ==
    /\ ~panicked
    /\ edit_mode = EditNone
    /\ Len(transcriptions) = 2
    /\ transcriptions[1].content = <<"x", "x">>
    /\ transcriptions[2].content = <<"x">>

(* ------------------------------------------------------------------ *)
(* Sessions and configuration changes                                   *)
(* ------------------------------------------------------------------ *)

\* The orchestrator is between two iterations of its loop: every
\* configuration change taken so far has been processed to its end.
AtSelect == main_pc = "select"

\* C32 as claimed: the transcription sessions opened so far are one more
\* than the configuration changes processed.
C32_SessionsPerChange_Original ==
    AtSelect => Len(tasks) = 1 + session_count.processed

\* C32 as amended: the transcription sessions opened so far are one more
\* than the configuration changes processed whose new session could be
\* created, never more than one more than the changes processed, and a
\* session is opened only by the step that creates the transcriber of a
\* change: a session that has ended is not replaced otherwise.
C32_SessionsPerChange ==
    [][/\ Len(tasks) <= 1 + session_count.processed
       /\ AtSelect => Len(tasks) = 1 + session_count.processed - session_count.failed
       /\ tasks' # tasks /\ Len(tasks') # Len(tasks) =>
             /\ main_pc = "tr_create"
             /\ Len(tasks') = Len(tasks) + 1
             /\ session_count' = session_count]_vars

\* C32 witness: the first session has ended on an error of its stream,
\* the orchestrator is back at its select, no change was requested and
\* there is still the one session.
C32_Witness ==
    /\ AtSelect
    /\ wake.source # "none"
    /\ Len(tasks) = 1
    /\ tasks[1].pc = "ended"
    /\ tasks[1].stream = "closed"
    /\ ~tasks[1].abort
    /\ session_count.processed = 0

(* ------------------------------------------------------------------ *)
(* Progress of the run loop                                             *)
(* ------------------------------------------------------------------ *)

RunEnded == run_loop.pc = "ended"

\* C33: in the run loop of a session, whatever keeps arriving, a due
\* keep-alive is eventually sent, a response that is ready is eventually
\* received and forwarded, and a queued chunk is eventually forwarded,
\* unless the loop has ended before.
C33_NoArmStarves ==
    \A p \in BOOLEAN :
       /\ (run_loop.due /\ run_loop.kept = p) ~> (run_loop.kept # p \/ RunEnded)
       /\ (run_loop.responses > 0 /\ run_loop.got = p) ~> (run_loop.got # p \/ RunEnded)
       /\ (run_loop.audio > 0 /\ run_loop.sent = p) ~> (run_loop.sent # p \/ RunEnded)

\* C33 witness: the loop is at its select with every arm ready and the
\* audio queue full, after a keep-alive, a chunk and a response went
\* through.
C33_Witness ==
    /\ run_loop.pc = "select"
    /\ run_ready(run_loop) = {"keep_alive", "audio", "receive"}
    /\ run_loop.audio = MaxQueued
    /\ run_loop.kept /\ run_loop.sent /\ run_loop.got

(* ------------------------------------------------------------------ *)
(* Termination of the capture worker                                    *)
(* ------------------------------------------------------------------ *)

\* The caller is inside stop: before the take of the handle or at the join.
InStop == main_pc \in {"dev_stop", "shutdown_stop", "dev_join", "shutdown_join"}

\* C34: a capture thread whose stop flag or the quit flag is set comes to
\* its end, and so every call of stop, alone or in restart, returns; the
\* join of a thread that has ended, as one whose device could not be
\* opened has, returns without waiting; and stop without a handle changes
\* nothing of the worker and of the threads.
C34_WorkerStops ==
    /\ \A w \in 1..(MaxWorkerCalls + 2) :
          (w \in DOMAIN workers /\ (workers[w].stop \/ should_quit))
             ~> (w \in DOMAIN workers /\ workers[w].state = "exited")
    /\ InStop ~> ~InStop
    /\ []((main_pc \in {"dev_join", "shutdown_join"}
             /\ workers[audio_worker.id].state = "exited") => ENABLED MainJoinWorker)
    /\ [][(MainStopWorker /\ ~audio_worker.handle) =>
             UNCHANGED <<workers, audio_worker, should_quit>>]_vars

\* C34 witness: two calls, both of stop since no second thread was
\* spawned; the second found no handle and has returned, and the thread,
\* which had opened its device, has ended.
C34_Witness ==
    /\ main_pc = "select"
    /\ restarts = 2
    /\ Len(workers) = 1
    /\ ~audio_worker.handle
    /\ workers[1].stop
    /\ workers[1].state = "exited"
    /\ ~should_quit

(* ------------------------------------------------------------------ *)
(* The device a worker opens                                            *)
(* ------------------------------------------------------------------ *)

\* C35: at the start the active device is the persisted selection, found
\* by its name in the enumeration of that moment; and a worker spawned
\* after the user chose a device in the dialog opens the device of the
\* name chosen, whatever the order of the enumerations.
C35_OpensSelectedName ==
    /\ (device.pc = "run" /\ device.changes = 0 /\ device.enumeration # None
          /\ device_position(device.enumeration[1], device.persisted) # None)
        => /\ device.name = device.persisted
           /\ device.enumeration[1][current_device_index + 1] = device.persisted
    /\ (device.selected # "" /\ device.spawned /\ device.opened # None)
        => device.opened = Some(device.selected)

(* ------------------------------------------------------------------ *)
(* One label per speaker                                                *)
(* ------------------------------------------------------------------ *)

\* The rows of the speaker id.
RowsOf(id) == {i \in DOMAIN transcriptions : transcriptions[i].speaker_id = Some(id)}

\* C36: the buffered messages of one speaker id all carry one label, the
\* name get_speaker_name gives for the id, in every state: also after
\* an apply_edit whose session has seen evictions.
C36_OneLabelPerSpeaker ==
    ~panicked =>
        \A i \in DOMAIN transcriptions :
            transcriptions[i].speaker_id # None =>
                /\ transcriptions[i].speaker =
                      Some(get_speaker_name(speaker_map, transcriptions[i].speaker_id[1]))
                /\ \A j \in RowsOf(transcriptions[i].speaker_id[1]) :
                      transcriptions[j].speaker = transcriptions[i].speaker

\* C36 witness: a label is being edited and a name has been typed; an
\* eviction since start_editing has moved another message, of speaker 1
\* and not the one the session took, to the session's index; two rows
\* are of speaker 1; speaker 0 has been renamed before and its row
\* carries the name.  The apply_edit enabled here renames speaker 1.
C36_Witness ==
    /\ ~panicked
    /\ edit_mode.kind = "EditingSpeaker"
    /\ trim(edit_mode.buffer) # <<>>
    /\ InRange(W, edit_mode.message_index)
    /\ transcriptions[1].uid > 1
    /\ RenameTarget.uid # edit_target
    /\ RenameTarget.speaker_id = Some(1)
    /\ Cardinality(RowsOf(1)) = 2
    /\ 0 \in DOMAIN speaker_map
    /\ speaker_map[0] # DefaultSpeakerName(0)
    /\ RowsOf(0) # {}

(* ------------------------------------------------------------------ *)
(* The redraw tick                                                      *)
(* ------------------------------------------------------------------ *)

\* C37: in the loop, quit not being requested, the tick is serviced again
\* and again, and every wake services a source that had something
\* pending, the loop blocking otherwise; also after the session ended on
\* an error and after a restart whose session failed to open.
C37_TickServiced ==
    /\ []<>(should_quit \/ wake.source = "tick")
    /\ [](wake.source # "none" => wake.source \in Pending)

(* ------------------------------------------------------------------ *)
(* From the session's events to the buffer                              *)
(* ------------------------------------------------------------------ *)

\* The transcript events of a queue: those that are not the sentinel.
Genuine(queue) == SelectSeq(queue, NotSentinel)

\* The step puts the results of a response on the event channel, behind
\* what is queued and in the order format_response gave them.
ResponseQueued ==
    \E r \in DeliverResponses :
        LET rs == format_response(r)
        IN  /\ Len(result_queue') = Len(result_queue) + Len(rs)
            /\ \A i \in DOMAIN result_queue : result_queue'[i] = result_queue[i]
            /\ \A i \in DOMAIN rs : result_queue'[Len(result_queue) + i].result = rs[i]

\* The step appends one message for each transcript event queued, in the
\* order of the queue and with the event's text and speaker_id, behind
\* the messages there are, and leaves the channel empty.
QueueAppended ==
    LET evs == Genuine(result_queue)
    IN  /\ result_queue' = <<>>
        /\ Len(transcriptions') = Len(transcriptions) + Len(evs)
        /\ \A i \in DOMAIN transcriptions : transcriptions'[i] = transcriptions[i]
        /\ \A i \in DOMAIN evs :
              LET m == transcriptions'[Len(transcriptions) + i]
              IN  /\ m.content = evs[i].result.transcript
                  /\ m.speaker_id = evs[i].result.speaker_id

\* The replacement of the channels in a configuration-change restart
\* (main.rs:199-204).
ChannelsReplaced == main_pc = "tr_channels" /\ main_pc' # main_pc

C39_ModalKeys ==
    /\ ~(app.settings # None /\ app.device)
    /\ app.last.modal => app.last.normal \in {"none", "unhandled"}

(* ------------------------------------------------------------------ *)
(* The recording time                                                   *)
(* ------------------------------------------------------------------ *)

\* C40: the recording time is the time spent in the Recording state, and
\* no step makes it smaller: not a pause, not a resume, not the clock; and
\* while paused it does not change.
C40_RecordingTime ==
    /\ [](get_recording_time(recording) = recording.recorded)
    /\ [][get_recording_time(recording') >= get_recording_time(recording)]_vars
    /\ [][(recording.is_paused /\ recording'.is_paused) =>
             get_recording_time(recording') = get_recording_time(recording)]_vars

====
